---- MODULE Spec2Model ----
(***************************************************************************)
(* The short-link redirector (worker/redirect.ts): link lookup, the        *)
(* ordered policy checks, the HMAC interstitial ticket, template           *)
(* resolution and the background visit recording.                          *)
(*                                                                         *)
(* Conventions.  A nullable value (T | null) is None or Some(v).  A JS     *)
(* number that may be NaN is NaN or Num(n).  Strings are TLA+ strings; a   *)
(* page is a sequence of tokens, a placeholder being the token "{{key}}".  *)
(* The request context that no check reads (ip, user agent, referer, geo)  *)
(* is left out of the VisitEvent.                                          *)
(*                                                                         *)
(* Specifications.  Spec: one request over links that vary every gate.     *)
(* SpecSig: the ticket signature alone.  SpecTpl: one request over every   *)
(* configuration of the link-level and domain-level templates.  SpecLookup:*)
(* one request over live, deleted and disabled links on active and         *)
(* inactive domains.  SpecRace: several requests for one link with their   *)
(* background statements interleaved.  SpecSeq: the same requests one      *)
(* after another.  SpecTicket: a visitor who resubmits the ticket of an    *)
(* interstitial page.  SpecLinks: the short-link management API            *)
(* (worker/api/shortlink.ts).  SpecAdmin: system initialisation            *)
(* (worker/auth.ts) and the domain management API (worker/api/domain.ts),  *)
(* statement by statement.  SpecAuth: login, password change and the       *)
(* authVerify middleware.                                                  *)
(***************************************************************************)
EXTENDS Integers, Sequences, FiniteSets, TLC

VARIABLES
    domains,             \* table domains: id -> row
    short_links,         \* table short_links: id -> row
    redirect_templates,  \* table redirect_templates: id -> row
    template_assets,     \* table template_assets: set of rows
    R2_BUCKET,           \* the object store binding: None or Some(key -> page)
    link_visit_events,   \* table link_visit_events: sequence of rows
    req,                 \* the request being answered (None before it arrives)
    result,              \* the row the handler's lookup returned (None: no row)
    resp,                \* the response returned (None before the handler returns)
    disp,                \* the statements handed to waitUntil, in program order
    pending,             \* indices of disp not yet executed
    ran,                 \* indices of disp executed successfully
    nreq,                \* number of requests handled
    served,              \* the requests handled, each with its row, response and statements
    hm,                  \* the ticket protocol exercised on its own (SpecSig)
    users,               \* table users: id -> row
    calls,               \* the management calls in flight: caller -> position and locals
    replies,             \* the management calls answered, each with its input and response
    clock                \* Math.floor(Date.now() / 1000) of the management API

vars == <<domains, short_links, redirect_templates, template_assets, R2_BUCKET,
          link_visit_events, req, result, resp, disp, pending, ran, nreq, served, hm,
          users, calls, replies, clock>>

None == <<>>
Some(v) == <<v>>
NaN == <<>>
Num(n) == <<n>>

\* JS truthiness of a nullable number / a nullable string.
TruthyNum(x) == x # None /\ x[1] # 0
TruthyStr(x) == x # None /\ x[1] # ""

\* a ?? b
Nullish(a, b) == IF a # None THEN a ELSE b

-----------------------------------------------------------------------------
(* Template content: getTemplateContent                                    *)

\* html.replace(new RegExp("\{\{key\}\}", "g"), value)
ReplaceAll(html, key, value) ==
    [i \in 1..Len(html) |-> IF html[i] = "{{" \o key \o "}}" THEN value ELSE html[i]]

\* for (const [key, value] of Object.entries(replacements)) html = html.replace(...)
RECURSIVE Substitute(_, _)
Substitute(html, replacements) ==
    IF replacements = <<>> THEN html
    ELSE Substitute(ReplaceAll(html, Head(replacements)[1], Head(replacements)[2]),
                    Tail(replacements))

\* SELECT ... FROM template_assets WHERE asset_prefix = ? AND filename = ?
AssetRows(prefix, filename) ==
    {a \in template_assets : a.asset_prefix = prefix /\ a.filename = filename}

\* The main file of a file-based template: None when it cannot be loaded.
AssetText(prefix, filename) ==
    IF AssetRows(prefix, filename) = {} THEN None
    ELSE LET asset == CHOOSE a \in AssetRows(prefix, filename) : TRUE
         IN  IF asset.storage_type = 0
             THEN asset.content
             ELSE IF asset.storage_type = 1
             THEN (IF ~TruthyStr(asset.r2_key) \/ R2_BUCKET = None THEN None
                   ELSE IF asset.r2_key[1] \notin DOMAIN R2_BUCKET[1] THEN None
                   ELSE Some(R2_BUCKET[1][asset.r2_key[1]]))
             ELSE None

\* The unsubstituted html of template templateId: None when the template is
\* missing, inactive or has no loadable content.
TemplateHtml(templateId) ==
    IF templateId \notin DOMAIN redirect_templates THEN None
    ELSE LET template == redirect_templates[templateId]
         IN  IF template.is_active # 1 THEN None
             ELSE IF template.content_type = 0
             THEN (IF template.html_content = None \/ template.html_content = Some(<<>>)
                   THEN None ELSE template.html_content)
             ELSE IF template.content_type = 1
             THEN (IF ~TruthyStr(template.main_file) \/ ~TruthyStr(template.asset_prefix)
                   THEN None
                   ELSE AssetText(template.asset_prefix[1], template.main_file[1]))
             ELSE None

getTemplateContent(templateId, replacements) ==
    IF TemplateHtml(templateId) = None THEN None
    ELSE Some(Substitute(TemplateHtml(templateId)[1], replacements))

-----------------------------------------------------------------------------
(* The interstitial ticket: generateHmacSignature / verifyHmacSignature    *)

Digits == {"0", "1", "2", "3", "4", "5", "6", "7", "8", "9"}
DigitVal(c) == CHOOSE d \in 0..9 : ToString(d) = c

RECURSIVE SkipSpaces(_)
SkipSpaces(s) == IF s # "" /\ Head(s) = " " THEN SkipSpaces(Tail(s)) ELSE s

\* The value of the longest prefix of decimal digits of s, continuing from acc.
RECURSIVE DigitsValue(_, _)
DigitsValue(s, acc) ==
    IF s # "" /\ Head(s) \in Digits
    THEN DigitsValue(Tail(s), 10 * acc + DigitVal(Head(s)))
    ELSE acc

\* parseInt(s, 10): leading blanks, an optional sign, then the longest prefix of
\* digits; NaN when there is no digit.
parseInt(s) ==
    LET t == SkipSpaces(s)
        neg == t # "" /\ Head(t) = "-"
        u == IF t # "" /\ Head(t) \in {"-", "+"} THEN Tail(t) ELSE t
    IN  IF u = "" \/ Head(u) \notin Digits THEN NaN
        ELSE Num(IF neg THEN 0 - DigitsValue(u, 0) ELSE DigitsValue(u, 0))

\* `${timestamp}` for a JS number
NumberToString(x) == IF x = NaN THEN "NaN" ELSE ToString(x[1])

\* HMAC-SHA256(key, message) in hex, as a term: the digest names its key and its
\* message (the key's length makes the term unambiguous), so two digests are equal
\* exactly when keys and messages are (a collision-free HMAC).
HmacSha256Hex(key, message) ==
    "hmac[" \o ToString(Len(key)) \o "," \o key \o "](" \o message \o ")"

\* Variant of SignedData: the host is left out of the signed string.
SignedDataNoHost(timestamp, host, code) ==
    NumberToString(timestamp) \o ":" \o code

SignedData(timestamp, host, code) ==
    NumberToString(timestamp) \o ":" \o host \o ":" \o code

generateHmacSignature(secret, timestamp, host, code) ==
    HmacSha256Hex(secret, SignedData(timestamp, host, code))

verifyHmacSignature(secret, timestamp, host, code, providedSignature) ==
    generateHmacSignature(secret, timestamp, host, code) = providedSignature

-----------------------------------------------------------------------------
(* Responses and background statements                                     *)

\* c.redirect(url, status)
Redirect(url, status) ==
    [status |-> status, kind |-> "redirect", location |-> Some(url), body |-> <<>>]
\* c.html(html, status)
Html(html, status) ==
    [status |-> status, kind |-> "html", location |-> None, body |-> html]
\* c.json({error, message}, status)
Json(error, message, status) ==
    [status |-> status, kind |-> "json", location |-> None, body |-> <<error, message>>]
\* c.text(text, status)
Text(text, status) ==
    [status |-> status, kind |-> "text", location |-> None, body |-> <<text>>]

\* waitUntil(recordVisitEvent(db, event))
EventTask(event) == [kind |-> "event", event |-> event]
\* UPDATE short_links SET total_clicks = total_clicks + 1, last_access_at = ? WHERE id = ?
UpdateTask(id, now) == [kind |-> "update", id |-> id, now |-> now]

Out(response, tasks) == [resp |-> response, disp |-> tasks]

\* c.req.query(name) || null
QueryOrNull(v) == IF v = Some("") THEN None ELSE v

-----------------------------------------------------------------------------
(* The handler app.get("/:code")                                           *)

\* Variant of LookupIds: the domain's is_active is not tested.
LookupIdsAnyDomain(code, host) ==
    {id \in DOMAIN short_links :
        /\ short_links[id].domain_id \in DOMAIN domains
        /\ short_links[id].code = code
        /\ domains[short_links[id].domain_id].host = host
        /\ short_links[id].deleted_at = None
        /\ short_links[id].is_disabled = 0}

\* The rows of the lookup's join: short_links JOIN domains, with its WHERE clause.
LookupIds(code, host) ==
    {id \in DOMAIN short_links :
        /\ short_links[id].domain_id \in DOMAIN domains
        /\ short_links[id].code = code
        /\ domains[short_links[id].domain_id].host = host
        /\ short_links[id].deleted_at = None
        /\ short_links[id].is_disabled = 0
        /\ domains[short_links[id].domain_id].is_active = 1}

\* sl.*, d.password_template_id, d.error_template_id of the joined row
JoinedRow(id) ==
    [f \in (DOMAIN short_links[id]) \cup
           {"id", "domain_password_template_id", "domain_error_template_id"} |->
        IF f = "id" THEN id
        ELSE IF f = "domain_password_template_id"
        THEN domains[short_links[id].domain_id].password_template_id
        ELSE IF f = "domain_error_template_id"
        THEN domains[short_links[id].domain_id].error_template_id
        ELSE short_links[id][f]]

\* .first(): a matching row, or no row
Lookup(code, host) ==
    IF LookupIds(code, host) = {} THEN {None}
    ELSE {Some(JoinedRow(id)) : id \in LookupIds(code, host)}

getErrorPageHtml(host, shortLink, replacements) ==
    LET activeDomains == {d \in DOMAIN domains :
                             domains[d].host = host /\ domains[d].is_active = 1}
        templateId ==
            IF shortLink # None
            THEN Nullish(shortLink[1].error_template_id,
                         shortLink[1].domain_error_template_id)
            ELSE IF activeDomains = {} THEN None
            ELSE domains[CHOOSE d \in activeDomains : TRUE].error_template_id
    IN  IF ~TruthyNum(templateId) THEN None
        ELSE getTemplateContent(templateId[1], replacements)

baseEvent(row, now) ==
    [short_link_id |-> row.id, domain_id |-> row.domain_id, code |-> row.code,
     visited_at |-> now, is_blocked |-> 0, block_reason |-> None,
     http_status |-> row.redirect_http_code]

Blocked(event, reason, status) ==
    [event EXCEPT !.is_blocked = 1, !.block_reason = Some(reason), !.http_status = status]

NotFoundBranch(r) ==
    LET html == getErrorPageHtml(r.host, None,
                    << <<"error_message", "Short link not found">>,
                       <<"error_code", "-3">>, <<"http_status", "404">>,
                       <<"code", r.code>> >>)
    IN  Out(IF html # None THEN Html(html[1], 404)
            ELSE Json("not_found", "Short link not found", 404), <<>>)

ExpiredBranch(r, row) ==
    LET html == getErrorPageHtml(r.host, Some(row),
                    << <<"error_message", "Link expired">>,
                       <<"error_code", "-4">>, <<"http_status", "410">> >>)
    IN  Out(IF html # None THEN Html(html[1], 410)
            ELSE Json("expired", "Link expired", 410),
            <<EventTask(Blocked(baseEvent(row, r.now), "expired", 410))>>)

LimitBranch(r, row) ==
    LET html == getErrorPageHtml(r.host, Some(row),
                    << <<"error_message", "Link visit limit reached">>,
                       <<"error_code", "-5">>, <<"http_status", "410">> >>)
    IN  Out(IF html # None THEN Html(html[1], 410)
            ELSE Json("limit", "Link visit limit reached", 410),
            <<EventTask(Blocked(baseEvent(row, r.now), "limit", 410))>>)

\* Variant of passwordTemplateId: the domain's template comes first.
passwordTemplateIdDomainFirst(row) ==
    Nullish(row.domain_password_template_id, row.password_template_id)

passwordTemplateId(row) ==
    Nullish(row.password_template_id, row.domain_password_template_id)

PasswordWrongBranch(r, row) ==
    LET templateResult ==
            IF TruthyNum(passwordTemplateId(row))
            THEN getTemplateContent(passwordTemplateId(row)[1],
                                    << <<"errorpassword", "true">> >>)
            ELSE None
    IN  Out(IF templateResult # None THEN Html(templateResult[1], 200)
            ELSE Text("server error", 500),
            <<EventTask(Blocked(baseEvent(row, r.now), "password_wrong", 401))>>)

\* Variant of PasswordChallengeBranch: the challenge also counts a click.
PasswordChallengeBranchCounting(r, row) ==
    Out(Text("Password required", 401),
        <<EventTask(Blocked(baseEvent(row, r.now), "password", 401)),
          UpdateTask(row.id, r.now)>>)

PasswordChallengeBranch(r, row) ==
    LET templateResult ==
            IF TruthyNum(passwordTemplateId(row))
            THEN getTemplateContent(passwordTemplateId(row)[1],
                                    << <<"errorpassword", "false">> >>)
            ELSE None
    IN  Out(IF templateResult # None THEN Html(templateResult[1], 200)
            ELSE Text("Password required", 401),
            <<EventTask(Blocked(baseEvent(row, r.now), "password", 401))>>)

\* Variant of AllowBranch: the redirect status is always 302.
AllowBranchAlways302(r, row) ==
    Out(Redirect(row.target_url, 302),
        <<EventTask(baseEvent(row, r.now)), UpdateTask(row.id, r.now)>>)

\* The three places that record the visit, count the click and redirect.
AllowBranch(r, row) ==
    Out(Redirect(row.target_url, row.redirect_http_code),
        <<EventTask(baseEvent(row, r.now)), UpdateTask(row.id, r.now)>>)

JWT_SECRET == "Secret-K1!"
maxValiditySeconds == 30 * 60

\* Variant of ElapsedInWindow: the lower bound is the delay itself.
ElapsedInWindowFullDelay(now, timestamp, delay) ==
    /\ timestamp # NaN
    /\ now - timestamp[1] >= delay
    /\ now - timestamp[1] <= maxValiditySeconds

\* Variant of ElapsedInWindow: a ticket never becomes too old.
ElapsedInWindowUncapped(now, timestamp, delay) ==
    /\ timestamp # NaN
    /\ now - timestamp[1] >= delay - 1

\* elapsedSeconds >= interstitial_delay - 1 && elapsedSeconds <= maxValiditySeconds
ElapsedInWindow(now, timestamp, delay) ==
    /\ timestamp # NaN
    /\ now - timestamp[1] >= delay - 1
    /\ now - timestamp[1] <= maxValiditySeconds

\* Variant of TicketAccepted: the signature is not verified.
TicketAcceptedUnverified(r, row) ==
    /\ QueryOrNull(r.t) # None
    /\ QueryOrNull(r.s) # None
    /\ ElapsedInWindow(r.now, parseInt(r.t[1]), row.interstitial_delay)

\* A forced link's ticket: t and s present, s verifies, elapsed in the window.
TicketAccepted(r, row) ==
    /\ QueryOrNull(r.t) # None
    /\ QueryOrNull(r.s) # None
    /\ verifyHmacSignature(JWT_SECRET, parseInt(r.t[1]), r.host, r.code, r.s[1])
    /\ ElapsedInWindow(r.now, parseInt(r.t[1]), row.interstitial_delay)

InterstitialPage(r, row) ==
    getTemplateContent(row.template_id[1],
        << <<"delay", ToString(row.interstitial_delay)>>,
           <<"timestamp", ToString(r.now)>>,
           <<"sign", generateHmacSignature(JWT_SECRET, Num(r.now), r.host, r.code)>> >>)

\* Variant of InterstitialBranch: a ticket is verified whether or not the link
\* forces verification.
InterstitialBranchAlwaysVerifies(r, row) ==
    LET needsInterstitial == row.use_interstitial # 0 /\ TruthyNum(row.template_id)
    IN  IF ~needsInterstitial THEN AllowBranch(r, row)
        ELSE IF QueryOrNull(r.t) # None /\ TicketAccepted(r, row) THEN AllowBranch(r, row)
        ELSE IF InterstitialPage(r, row) # None
        THEN Out(Html(InterstitialPage(r, row)[1], 200),
                 <<EventTask(Blocked(baseEvent(row, r.now), "interstitial", 200))>>)
        ELSE AllowBranch(r, row)

InterstitialBranch(r, row) ==
    LET needsInterstitial == row.use_interstitial # 0 /\ TruthyNum(row.template_id)
        forceVerification == row.force_interstitial = 1
    IN  IF ~needsInterstitial THEN AllowBranch(r, row)
        ELSE IF QueryOrNull(r.t) # None /\ ~forceVerification THEN AllowBranch(r, row)
        ELSE IF QueryOrNull(r.t) # None /\ TicketAccepted(r, row) THEN AllowBranch(r, row)
        ELSE IF InterstitialPage(r, row) # None
        THEN Out(Html(InterstitialPage(r, row)[1], 200),
                 <<EventTask(Blocked(baseEvent(row, r.now), "interstitial", 200))>>)
        ELSE AllowBranch(r, row)

\* Variant of PasswordBranch: any supplied password passes.
PasswordBranchAnyPassword(r, row) ==
    IF TruthyStr(row.password) /\ QueryOrNull(r.password) = None
    THEN PasswordChallengeBranch(r, row)
    ELSE InterstitialBranch(r, row)

PasswordBranch(r, row) ==
    LET password == QueryOrNull(r.password)
    IN  IF ~TruthyStr(row.password) THEN InterstitialBranch(r, row)
        ELSE IF password # None /\ row.password # password
        THEN PasswordWrongBranch(r, row)
        ELSE IF password = None THEN PasswordChallengeBranch(r, row)
        ELSE InterstitialBranch(r, row)

\* Variant of LimitCheck: the limit is reached only above max_visits.
LimitCheckAbove(r, row) ==
    IF TruthyNum(row.max_visits) /\ row.total_clicks > row.max_visits[1]
    THEN LimitBranch(r, row)
    ELSE PasswordBranch(r, row)

LimitCheck(r, row) ==
    IF TruthyNum(row.max_visits) /\ row.total_clicks >= row.max_visits[1]
    THEN LimitBranch(r, row)
    ELSE PasswordBranch(r, row)

\* Variant of ExpiryCheck: the password challenge comes before the expiry check.
ExpiryCheckAfterChallenge(r, row) ==
    IF TruthyStr(row.password) /\ QueryOrNull(r.password) = None
    THEN PasswordChallengeBranch(r, row)
    ELSE IF TruthyNum(row.expire_at) /\ row.expire_at[1] < r.now
    THEN ExpiredBranch(r, row)
    ELSE LimitCheck(r, row)

ExpiryCheck(r, row) ==
    IF TruthyNum(row.expire_at) /\ row.expire_at[1] < r.now
    THEN ExpiredBranch(r, row)
    ELSE LimitCheck(r, row)

\* The handler from the lookup's row to the response and the statements it
\* hands to waitUntil.
Handle(r, res) == IF res = None THEN NotFoundBranch(r) ELSE ExpiryCheck(r, res[1])

-----------------------------------------------------------------------------
(* Actions                                                                 *)

tables == <<domains, redirect_templates, template_assets, R2_BUCKET>>

\* The state of the management API, which no redirect reads or writes.
admin == <<users, calls, replies, clock>>

\* One GET /:code, from the lookup to the returned response; what it hands to
\* waitUntil is queued and runs in the background.
DoRequest(r) ==
    \E res \in Lookup(r.code, r.host) :
      LET out == Handle(r, res)
      IN  /\ req' = Some(r)
          /\ result' = res
          /\ resp' = Some(out.resp)
          /\ disp' = disp \o out.disp
          /\ pending' = pending \cup (Len(disp) + 1 .. Len(disp) + Len(out.disp))
          /\ nreq' = nreq + 1
          /\ served' = Append(served,
                              [req |-> r, result |-> res, resp |-> out.resp,
                               tasks |-> Len(disp) + 1 .. Len(disp) + Len(out.disp)])
          /\ UNCHANGED <<tables, short_links, link_visit_events, ran, hm, admin>>

\* recordVisitEvent: INSERT INTO link_visit_events
RecordVisitEvent ==
    \E i \in pending :
        /\ disp[i].kind = "event"
        /\ link_visit_events' = Append(link_visit_events, disp[i].event)
        /\ pending' = pending \ {i}
        /\ ran' = ran \cup {i}
        /\ UNCHANGED <<tables, short_links, req, result, resp, disp, nreq, served, hm, admin>>

\* Variant of UpdateClicks: the UPDATE and the INSERT of the same request are one
\* transaction.
UpdateClicksInTransaction ==
    \E i \in pending :
        /\ disp[i].kind = "update"
        /\ short_links' =
              [id \in DOMAIN short_links |->
                  IF id = disp[i].id
                  THEN [short_links[id] EXCEPT !.total_clicks = @ + 1,
                                               !.last_access_at = Some(disp[i].now)]
                  ELSE short_links[id]]
        /\ link_visit_events' =
              IF i - 1 \in pending THEN Append(link_visit_events, disp[i - 1].event)
              ELSE link_visit_events
        /\ pending' = pending \ {i - 1, i}
        /\ ran' = ran \cup ({i - 1, i} \cap pending)
        /\ UNCHANGED <<tables, req, result, resp, disp, nreq, served, hm, admin>>

\* UPDATE short_links SET total_clicks = total_clicks + 1, last_access_at = ? WHERE id = ?
UpdateClicks ==
    \E i \in pending :
        /\ disp[i].kind = "update"
        /\ short_links' =
              [id \in DOMAIN short_links |->
                  IF id = disp[i].id
                  THEN [short_links[id] EXCEPT !.total_clicks = @ + 1,
                                               !.last_access_at = Some(disp[i].now)]
                  ELSE short_links[id]]
        /\ pending' = pending \ {i}
        /\ ran' = ran \cup {i}
        /\ UNCHANGED <<tables, link_visit_events, req, result, resp, disp, nreq, served, hm, admin>>

\* A background statement rejects: nothing awaits it and nothing retries it.
TaskFails ==
    \E i \in pending :
        /\ pending' = pending \ {i}
        /\ UNCHANGED <<tables, short_links, link_visit_events, req, result, resp,
                       disp, ran, nreq, served, hm, admin>>

-----------------------------------------------------------------------------
(* The database and the requests of specification Spec                    *)

MaxDelay == 2
MaxClicks == 1

Page == <<"<html>", "{{delay}}", "{{timestamp}}", "{{sign}}", "{{errorpassword}}",
          "{{error_message}}", "{{http_status}}", "{{code}}", "</html>">>

\* Template 1: active, inline.  2: inactive.  3: active, its main file an asset
\* stored in the database.
Templates ==
    1 :> [is_active |-> 1, content_type |-> 0, html_content |-> Some(Page),
          main_file |-> None, asset_prefix |-> None]
    @@ 2 :> [is_active |-> 0, content_type |-> 0, html_content |-> Some(Page),
             main_file |-> None, asset_prefix |-> None]
    @@ 3 :> [is_active |-> 1, content_type |-> 1, html_content |-> None,
             main_file |-> Some("index.html"), asset_prefix |-> Some("err")]

Assets ==
    {[asset_prefix |-> "err", filename |-> "index.html", storage_type |-> 0,
      content |-> Some(Page), r2_key |-> None]}

\* x.com is active and has an error template; y.com is inactive.
Domains ==
    1 :> [host |-> "x.com", is_active |-> 1, is_default |-> 1,
          password_template_id |-> None, error_template_id |-> Some(3),
          interstitial_template_id |-> None]
    @@ 2 :> [host |-> "y.com", is_active |-> 0, is_default |-> 0,
             password_template_id |-> None, error_template_id |-> Some(3),
             interstitial_template_id |-> None]

BaseLink ==
    [domain_id |-> 1, code |-> "abc", target_url |-> "https://dest.example",
     redirect_http_code |-> 302, use_interstitial |-> 0, interstitial_delay |-> 0,
     force_interstitial |-> 0, template_id |-> None, password |-> None,
     max_visits |-> None, expire_at |-> None, is_disabled |-> 0, deleted_at |-> None,
     total_clicks |-> 0, last_access_at |-> None, password_template_id |-> None,
     error_template_id |-> None]

\* The interstitial settings of a link.
TicketCfgs ==
    {[use |-> 1, force |-> f, delay |-> d, tpl |-> Some(1)] : f \in {0, 1}, d \in 0..MaxDelay}
OtherCfgs ==
    {[use |-> 0, force |-> 1, delay |-> 0, tpl |-> Some(1)],
     [use |-> 1, force |-> 1, delay |-> 0, tpl |-> None],
     [use |-> 1, force |-> 1, delay |-> 0, tpl |-> Some(2)]}

WithTicketCfg(link, c) ==
    [link EXCEPT !.use_interstitial = c.use, !.force_interstitial = c.force,
                 !.interstitial_delay = c.delay, !.template_id = c.tpl]

\* The password settings of a link: the password and the link-level template.
PasswordCfgs ==
    {<<None, None>>, <<Some(""), Some(1)>>, <<Some("p"), None>>, <<Some("p"), Some(1)>>}

\* Without an interstitial page, and with a forced one.
GateCfgs ==
    {[use |-> 0, force |-> 1, delay |-> 0, tpl |-> Some(1)],
     [use |-> 1, force |-> 1, delay |-> 1, tpl |-> Some(1)]}

\* Links that vary the expiry, the visit limit and the password, without an
\* interstitial page and with a forced one.
GateLinks ==
    {WithTicketCfg([BaseLink EXCEPT !.expire_at = e, !.max_visits = m,
                                    !.total_clicks = n, !.password = pw[1],
                                    !.password_template_id = pw[2]], c) :
        e \in {None, Some(0), Some(1)},
        m \in {None} \cup {Some(k) : k \in 0..MaxClicks},
        n \in 0..MaxClicks,
        pw \in PasswordCfgs,
        c \in GateCfgs}

\* Links that vary the redirect status.
StatusLinks ==
    {WithTicketCfg([BaseLink EXCEPT !.redirect_http_code = rc], c) :
        rc \in {301, 302, 307, 308}, c \in GateCfgs}

\* Links that vary the interstitial settings, with and without a password.
TicketLinks ==
    {WithTicketCfg([BaseLink EXCEPT !.password = pw], c) :
        pw \in {None, Some("p")}, c \in TicketCfgs \cup OtherCfgs}

Links == GateLinks \cup TicketLinks \cup StatusLinks

Nows == {0, 1, maxValiditySeconds, maxValiditySeconds + 1}

\* The t parameters a client may send: none, an empty one, a decimal timestamp,
\* one followed by another character, a word.
TParams == {None, Some(""), Some("0"), Some("2"), Some("2x"), Some("x")}

\* The s parameters sent with t: none, the signature of the parsed t for this
\* host and code, that of the same t and code for another host, and that of
\* another timestamp.
SParams(t, host, code) ==
    LET ts == IF t = None THEN NaN ELSE parseInt(t[1])
    IN  {None,
         Some(generateHmacSignature(JWT_SECRET, ts, host, code)),
         Some(generateHmacSignature(JWT_SECRET, ts, "y.com", code)),
         Some(generateHmacSignature(JWT_SECRET, Num(7), host, code))}

TicketParams(host, code) ==
    UNION {{<<t, s>> : s \in SParams(t, host, code)} : t \in TParams}

Requests ==
    {[host |-> "x.com", code |-> "abc", now |-> n, password |-> pw,
      t |-> ts[1], s |-> ts[2]] :
        n \in Nows, pw \in {None, Some("p"), Some("q")},
        ts \in TicketParams("x.com", "abc")}
    \cup
    {[host |-> h, code |-> c, now |-> 1, password |-> pw, t |-> None, s |-> None] :
        h \in {"x.com", "y.com"}, c \in {"abc", "gone"}, pw \in {None, Some("p")}}

NoSig == [phase |-> "off"]

\* No management call has been made.
NoAdmin == users = <<>> /\ calls = <<>> /\ replies = <<>> /\ clock = 0

Init ==
    /\ domains = Domains
    /\ \E link \in Links :
          short_links =
              1 :> link
              @@ 2 :> [BaseLink EXCEPT !.code = "gone", !.deleted_at = Some(1)]
              @@ 3 :> [BaseLink EXCEPT !.domain_id = 2]
    /\ redirect_templates = Templates
    /\ template_assets = Assets
    /\ R2_BUCKET = None
    /\ link_visit_events = <<>>
    /\ req = None
    /\ result = None
    /\ resp = None
    /\ disp = <<>>
    /\ pending = {}
    /\ ran = {}
    /\ nreq = 0
    /\ served = <<>>
    /\ hm = NoSig
    /\ NoAdmin

\* The handler answers one request; its background statements then run or fail.
Resolve == nreq = 0 /\ \E r \in Requests : DoRequest(r)

Next == Resolve \/ RecordVisitEvent \/ UpdateClicks \/ TaskFails

Spec == Init /\ [][Next]_vars

-----------------------------------------------------------------------------
(* The ticket protocol on its own: specification SpecSig                   *)

SigSecrets == {"Secret-K1!", "Secret-K2!"}
SigTimestamps == {NaN, Num(0), Num(1), Num(10)}
SigHosts == {"x.com", "y.com", "x.com:a"}
SigCodes == {"abc", "b", "a:b"}

SigInputs ==
    {[secret |-> k, timestamp |-> t, host |-> h, code |-> c] :
        k \in SigSecrets, t \in SigTimestamps, h \in SigHosts, c \in SigCodes}

SignatureOf(in) == generateHmacSignature(in.secret, in.timestamp, in.host, in.code)

InitSig ==
    /\ domains = Domains
    /\ short_links = 1 :> BaseLink
    /\ redirect_templates = Templates
    /\ template_assets = Assets
    /\ R2_BUCKET = None
    /\ link_visit_events = <<>>
    /\ req = None
    /\ result = None
    /\ resp = None
    /\ disp = <<>>
    /\ pending = {}
    /\ ran = {}
    /\ nreq = 0
    /\ served = <<>>
    /\ hm = NoSig
    /\ NoAdmin

\* generateHmacSignature on some inputs
SigGenerate ==
    /\ hm.phase = "off"
    /\ \E in \in SigInputs :
          hm' = [phase |-> "signed", in |-> in, sig |-> SignatureOf(in)]
    /\ UNCHANGED <<tables, short_links, link_visit_events, req, result, resp, disp,
                   pending, ran, nreq, served, admin>>

\* verifyHmacSignature on some inputs and some signature
SigVerify ==
    /\ hm.phase = "signed"
    /\ \E vin \in SigInputs, vsig \in {SignatureOf(in) : in \in SigInputs} :
          hm' = [phase |-> "verified", in |-> hm.in, sig |-> hm.sig,
                 vin |-> vin, vsig |-> vsig,
                 ok |-> verifyHmacSignature(vin.secret, vin.timestamp, vin.host,
                                            vin.code, vsig)]
    /\ UNCHANGED <<tables, short_links, link_visit_events, req, result, resp, disp,
                   pending, ran, nreq, served, admin>>

NextSig == SigGenerate \/ SigVerify

SpecSig == InitSig /\ [][NextSig]_vars

-----------------------------------------------------------------------------
(* Template resolution for the error, password and interstitial roles:     *)
(* specification SpecTpl                                                   *)

\* A page that names the template it comes from.
PageOf(mark) ==
    <<mark, "{{errorpassword}}", "{{error_message}}", "{{http_status}}", "{{code}}",
      "{{delay}}", "{{timestamp}}", "{{sign}}">>

\* Template 1: active, inline.  2: inactive.  3: active, main file stored in the
\* database.  4: active, inline, empty.  5: active, main file without an asset
\* row.  6: active, main file stored in the object store.  7: active, main file
\* an asset row without content.  No template has id 9.
TplTemplates ==
    [id \in 1..7 |->
        [is_active |-> IF id = 2 THEN 0 ELSE 1,
         content_type |-> IF id \in {1, 2, 4} THEN 0 ELSE 1,
         html_content |-> IF id \in {1, 2} THEN Some(PageOf("<t" \o ToString(id) \o ">"))
                          ELSE IF id = 4 THEN Some(<<>>) ELSE None,
         main_file |-> IF id \in {1, 2, 4} THEN None ELSE Some("index.html"),
         asset_prefix |-> IF id \in {1, 2, 4} THEN None ELSE Some("t" \o ToString(id))]]

TplAssets ==
    {[asset_prefix |-> "t3", filename |-> "index.html", storage_type |-> 0,
      content |-> Some(PageOf("<t3>")), r2_key |-> None],
     [asset_prefix |-> "t6", filename |-> "index.html", storage_type |-> 1,
      content |-> None, r2_key |-> Some("templates/t6/index.html")],
     [asset_prefix |-> "t7", filename |-> "index.html", storage_type |-> 0,
      content |-> None, r2_key |-> None]}

\* The object store: not bound, or holding template 6's main file.
TplBuckets == {None, Some("templates/t6/index.html" :> PageOf("<t6>"))}

\* What a template id column may hold.
TplIds == {None} \cup {Some(id) : id \in (1..7) \cup {9}}

\* The table domains with x.com's three template ids set.
TplDomains(e, p, i) ==
    1 :> [Domains[1] EXCEPT !.error_template_id = e, !.password_template_id = p,
                            !.interstitial_template_id = i]
    @@ 2 :> [Domains[2] EXCEPT !.error_template_id = Some(1)]

\* A database: the domains and the link /abc of x.com.
TplDb(doms, link) == [domains |-> doms, link |-> link]

\* Links answered by the error role (expired, over the limit), by the password
\* role, and links that use an interstitial page, each with every pair of
\* link-level and domain-level template ids of its role.
TplDbs ==
    {TplDb(TplDomains(de, None, None), [lk EXCEPT !.error_template_id = le]) :
        de \in TplIds, le \in TplIds,
        lk \in {[BaseLink EXCEPT !.expire_at = Some(1)],
                [BaseLink EXCEPT !.max_visits = Some(1), !.total_clicks = 1]}}
    \cup
    {TplDb(TplDomains(None, dp, None),
           [BaseLink EXCEPT !.password = Some("p"), !.password_template_id = lp]) :
        dp \in TplIds, lp \in TplIds}
    \cup
    {TplDb(TplDomains(None, None, di),
           [BaseLink EXCEPT !.use_interstitial = 1, !.force_interstitial = f,
                            !.template_id = li]) :
        di \in {None, Some(1), Some(2), Some(3)}, li \in {None, Some(1), Some(2)},
        f \in {0, 1}}

TplRequests ==
    {[host |-> h, code |-> c, now |-> 2, password |-> pw, t |-> None, s |-> None] :
        h \in {"x.com", "y.com"}, c \in {"abc", "nope"},
        pw \in {None, Some("p"), Some("q")}}

InitTpl ==
    /\ \E db \in TplDbs :
          /\ domains = db.domains
          /\ short_links = 1 :> db.link
    /\ redirect_templates = TplTemplates
    /\ template_assets = TplAssets
    /\ R2_BUCKET \in TplBuckets
    /\ link_visit_events = <<>>
    /\ req = None
    /\ result = None
    /\ resp = None
    /\ disp = <<>>
    /\ pending = {}
    /\ ran = {}
    /\ nreq = 0
    /\ served = <<>>
    /\ hm = NoSig
    /\ NoAdmin

ResolveTpl == nreq = 0 /\ \E r \in TplRequests : DoRequest(r)

NextTpl == ResolveTpl \/ RecordVisitEvent \/ UpdateClicks \/ TaskFails

SpecTpl == InitTpl /\ [][NextTpl]_vars

-----------------------------------------------------------------------------
(* The link lookup: specification SpecLookup                               *)

\* x.com and z.com are active, y.com is not; only x.com has an error template.
LookupDomains ==
    Domains @@ 3 :> [Domains[1] EXCEPT !.host = "z.com", !.is_default = 0,
                                       !.error_template_id = None]

\* The link /abc: on any of the three domains, live, soft-deleted or disabled,
\* with or without a password and an interstitial page.
LookupLinks ==
    {[BaseLink EXCEPT !.domain_id = d, !.deleted_at = del, !.is_disabled = dis,
                      !.password = pw, !.use_interstitial = u, !.template_id = Some(1)] :
        d \in DOMAIN LookupDomains, del \in {None, Some(0), Some(1)}, dis \in {0, 1},
        pw \in {None, Some("p")}, u \in {0, 1}}

\* Requests for the code of the link, of another domain's link and of no link,
\* under every domain's host, an unknown host and no Host header.
LookupRequests ==
    {[host |-> h, code |-> c, now |-> 1, password |-> pw, t |-> None, s |-> None] :
        h \in {"x.com", "y.com", "z.com", "w.com", ""},
        c \in {"abc", "other", "nope"}, pw \in {None, Some("p")}}

InitLookup ==
    /\ domains = LookupDomains
    /\ \E link \in LookupLinks :
          short_links = 1 :> link
                        @@ 2 :> [BaseLink EXCEPT !.code = "other", !.domain_id = 3]
    /\ redirect_templates = Templates
    /\ template_assets = Assets
    /\ R2_BUCKET = None
    /\ link_visit_events = <<>>
    /\ req = None
    /\ result = None
    /\ resp = None
    /\ disp = <<>>
    /\ pending = {}
    /\ ran = {}
    /\ nreq = 0
    /\ served = <<>>
    /\ hm = NoSig
    /\ NoAdmin

ResolveLookup == nreq = 0 /\ \E r \in LookupRequests : DoRequest(r)

NextLookup == ResolveLookup \/ RecordVisitEvent \/ UpdateClicks \/ TaskFails

SpecLookup == InitLookup /\ [][NextLookup]_vars

-----------------------------------------------------------------------------
(* Several requests for one link, their background statements running in   *)
(* any order between them: specification SpecRace                          *)

MaxRequests == 3

\* The link /abc with a visit limit or none, at every count up to the limit.
RaceLinks ==
    {[BaseLink EXCEPT !.max_visits = m, !.total_clicks = n] :
        m \in {None} \cup {Some(k) : k \in 1..MaxClicks}, n \in 0..MaxClicks}

\* The request for /abc that arrives at second now.
RaceRequest(now) ==
    [host |-> "x.com", code |-> "abc", now |-> now, password |-> None,
     t |-> None, s |-> None]

InitRace ==
    /\ domains = Domains
    /\ \E link \in RaceLinks : short_links = 1 :> link
    /\ redirect_templates = Templates
    /\ template_assets = Assets
    /\ R2_BUCKET = None
    /\ link_visit_events = <<>>
    /\ req = None
    /\ result = None
    /\ resp = None
    /\ disp = <<>>
    /\ pending = {}
    /\ ran = {}
    /\ nreq = 0
    /\ served = <<>>
    /\ hm = NoSig
    /\ NoAdmin

\* A request is answered while statements of earlier requests are still pending.
ResolveRace == nreq < MaxRequests /\ DoRequest(RaceRequest(nreq + 1))

NextRace == ResolveRace \/ RecordVisitEvent \/ UpdateClicks \/ TaskFails

SpecRace == InitRace /\ [][NextRace]_vars

-----------------------------------------------------------------------------
(* What the claims speak of                                                *)

Answered == resp # None
Found == result # None
R == req[1]
Row == result[1]
Rsp == resp[1]

EventTasks == {i \in 1..Len(disp) : disp[i].kind = "event"}
UpdateTasks == {i \in 1..Len(disp) : disp[i].kind = "update"}
TheEvent == disp[CHOOSE i \in EventTasks : TRUE].event

IsRedirect == Rsp.kind = "redirect"

\* The event dispatched is the only one and is blocked with this reason.
RecordedBlocked(reason) ==
    /\ Cardinality(EventTasks) = 1
    /\ TheEvent.is_blocked = 1
    /\ TheEvent.block_reason = Some(reason)

\* The tokens of the response body that stand where the template has {{key}}.
Injected(key, value) ==
    LET html == TemplateHtml(Row.template_id[1])[1]
    IN  /\ Len(Rsp.body) = Len(html)
        /\ \E i \in 1..Len(html) : html[i] = "{{" \o key \o "}}"
        /\ \A i \in 1..Len(html) : html[i] = "{{" \o key \o "}}" => Rsp.body[i] = value

\* The response is the interstitial page with a ticket issued now.
FreshInterstitialPage ==
    /\ Rsp.status = 200
    /\ Rsp.kind = "html"
    /\ Injected("timestamp", ToString(R.now))
    /\ Injected("sign", generateHmacSignature(JWT_SECRET, Num(R.now), R.host, R.code))
    /\ RecordedBlocked("interstitial")
    /\ TheEvent.http_status = 200
    /\ UpdateTasks = {}

\* The link is one whose interstitial check is forced and has a page to show.
ForcedWithPage ==
    /\ Answered /\ Found
    /\ Row.use_interstitial = 1
    /\ Row.force_interstitial = 1
    /\ Row.template_id # None
    /\ TemplateHtml(Row.template_id[1]) # None

\* The request carries t and s, and s is the signature of (t, host, code).
CarriesValidTicket ==
    /\ R.t \notin {None, Some("")}
    /\ R.s \notin {None, Some("")}
    /\ R.s[1] = generateHmacSignature(JWT_SECRET, parseInt(R.t[1]), R.host, R.code)

\* The request was stopped by none of the expiry, visit-limit and password checks.
PastPasswordGate ==
    /\ ~(Row.expire_at \notin {None, Some(0)} /\ Row.expire_at[1] < R.now)
    /\ ~(Row.max_visits \notin {None, Some(0)} /\ Row.total_clicks >= Row.max_visits[1])
    /\ (Row.password \notin {None, Some("")} => R.password = Row.password)

\* C1: on a forced-interstitial link with a resolvable template a request is
\* redirected only if it carries t and s with s the signature of (t, host, code);
\* a request that reaches the check without such a pair gets 200 and the
\* interstitial page with a ticket issued now, is recorded blocked with reason
\* 'interstitial', and is not redirected.
C1_ForcedTicketGate ==
    ForcedWithPage =>
        /\ IsRedirect => CarriesValidTicket
        /\ (PastPasswordGate /\ ~CarriesValidTicket) =>
              (FreshInterstitialPage /\ ~IsRedirect)

C1_Witness ==
    /\ ForcedWithPage
    /\ R.t = Some("0")
    /\ R.s = Some(generateHmacSignature(JWT_SECRET, Num(0), "y.com", R.code))
    /\ R.now = 1
    /\ Rsp.status = 200
    /\ pending = {}
    /\ Len(link_visit_events) = 1
    /\ link_visit_events[1].block_reason = Some("interstitial")

\* C2: on a forced-interstitial link with delay D whose check applies, a request
\* with a timestamp t and the signature of (t, host, code) is redirected exactly
\* when D - 1 <= now - t <= 1800; otherwise the interstitial page is shown again.
C2_AcceptanceWindow ==
    (ForcedWithPage /\ PastPasswordGate /\ CarriesValidTicket) =>
        LET t == parseInt(R.t[1])
            inWindow == /\ t # NaN
                        /\ Row.interstitial_delay - 1 <= R.now - t[1]
                        /\ R.now - t[1] <= 1800
        IN  /\ IsRedirect <=> inWindow
            /\ ~inWindow => FreshInterstitialPage

C2_Witness ==
    /\ ForcedWithPage /\ PastPasswordGate /\ CarriesValidTicket
    /\ Row.interstitial_delay = 2
    /\ R.t = Some("0")
    /\ R.now = 1
    /\ IsRedirect

\* C3: a link with a password is neither redirected nor shown its interstitial
\* page unless the password parameter equals the link's password; with the
\* matching password a request that is neither expired nor over the limit gets
\* past the gate, to the interstitial page or to the redirect.
C3_PasswordGate ==
    (Answered /\ Found /\ Row.password \notin {None, Some("")}) =>
        /\ (IsRedirect \/ (EventTasks # {} /\ TheEvent.block_reason = Some("interstitial")))
              => R.password = Row.password
        /\ (PastPasswordGate /\ R.password = Row.password)
              => (IsRedirect \/ FreshInterstitialPage)

C3_Witness ==
    /\ Answered /\ Found
    /\ Row.password = Some("p")
    /\ R.password = Some("p")
    /\ Row.use_interstitial = 1 /\ Row.force_interstitial = 1
    /\ R.t = None
    /\ FreshInterstitialPage

\* The request is answered 410 and recorded blocked with this reason.
Gone(reason) ==
    /\ Rsp.status = 410
    /\ RecordedBlocked(reason)
    /\ TheEvent.http_status = 410

\* C4 as stated: every resolved link with expire_at set and < now is answered 410
\* and recorded 'expired'.
C4_AsStated ==
    (Answered /\ Found /\ Row.expire_at # None /\ Row.expire_at[1] < R.now)
        => Gone("expired")

\* C4: every resolved link whose expire_at is set, is not 0 and is < now is
\* answered 410 and recorded 'expired', whatever its password, max_visits and
\* interstitial settings and whatever password, t and s the request carries.
C4_ExpiredIsGone ==
    (Answered /\ Found /\ Row.expire_at # None /\ Row.expire_at[1] # 0
        /\ Row.expire_at[1] < R.now)
        => Gone("expired")

C4_Witness ==
    /\ Answered /\ Found
    /\ Row.expire_at = Some(1) /\ R.now = 1800
    /\ Row.password = Some("p") /\ R.password = Some("p")
    /\ Row.max_visits = Some(1) /\ Row.total_clicks = 1
    /\ ForcedWithPage /\ CarriesValidTicket
    /\ Gone("expired")
    /\ pending = {}
    /\ Len(link_visit_events) = 1

\* C5: every resolved link that is not expired, has max_visits set and has
\* total_clicks >= max_visits is answered 410 and recorded 'limit', for every
\* value of max_visits.
C5_OverLimitIsGone ==
    (Answered /\ Found
        /\ ~(Row.expire_at \notin {None, Some(0)} /\ Row.expire_at[1] < R.now)
        /\ Row.max_visits # None /\ Row.total_clicks >= Row.max_visits[1])
        => Gone("limit")

\* The checks as the claims state them.
IsExpired == Row.expire_at \notin {None, Some(0)} /\ Row.expire_at[1] < R.now
IsOverLimit == Row.max_visits # None /\ Row.total_clicks >= Row.max_visits[1]
HasPassword == Row.password \notin {None, Some("")}
PasswordMatches == R.password = Row.password
AtInterstitial == EventTasks # {} /\ TheEvent.block_reason = Some("interstitial")

\* C6: the checks run in the order expiry, visit limit, password, interstitial
\* and the first that fails decides: expired and over the limit is 'expired';
\* over the limit with a wrong or missing password is 'limit' (410); a missing or
\* wrong password never reaches the interstitial check; a redirect is reached
\* only when no check fails.
C6_CheckOrder ==
    (Answered /\ Found) =>
        /\ (IsExpired /\ IsOverLimit) => Gone("expired")
        /\ (~IsExpired /\ IsOverLimit /\ HasPassword /\ ~PasswordMatches) => Gone("limit")
        /\ (HasPassword /\ ~PasswordMatches) => (~AtInterstitial /\ ~IsRedirect)
        /\ IsRedirect =>
              /\ ~IsExpired
              /\ ~IsOverLimit
              /\ (HasPassword => PasswordMatches)
              /\ (ForcedWithPage => CarriesValidTicket)
              /\ (Row.use_interstitial = 1 /\ Row.force_interstitial = 0
                    /\ Row.template_id # None
                    /\ TemplateHtml(Row.template_id[1]) # None)
                    => R.t \notin {None, Some("")}

\* C8: every answered request, whatever its disposition, dispatches exactly one
\* recordVisitEvent, whose blocked flag and status are the disposition's.
C8_OneEventPerRequest ==
    Answered =>
        /\ Cardinality(EventTasks) = 1
        /\ TheEvent.http_status = Rsp.status
        /\ TheEvent.is_blocked = (IF IsRedirect THEN 0 ELSE 1)

\* C9: a redirected request answers with the link's redirect status (one of
\* 301, 302, 307, 308) and Location = target_url, dispatches one unblocked
\* VisitEvent with that status and one UPDATE, and the UPDATE, once run, has
\* added exactly 1 to total_clicks and set last_access_at to the request's now.
C9_Allowed ==
    (Answered /\ IsRedirect) =>
        /\ Found
        /\ Rsp.status = Row.redirect_http_code
        /\ Rsp.status \in {301, 302, 307, 308}
        /\ Rsp.location = Some(Row.target_url)
        /\ Cardinality(EventTasks) = 1
        /\ TheEvent.is_blocked = 0
        /\ TheEvent.block_reason = None
        /\ TheEvent.http_status = Row.redirect_http_code
        /\ TheEvent.visited_at = R.now
        /\ Cardinality(UpdateTasks) = 1
        /\ \A i \in UpdateTasks :
              /\ disp[i].id = Row.id
              /\ disp[i].now = R.now
              /\ i \in ran =>
                    /\ short_links[Row.id].total_clicks = Row.total_clicks + 1
                    /\ short_links[Row.id].last_access_at = Some(R.now)
              /\ i \notin ran =>
                    short_links[Row.id].total_clicks = Row.total_clicks

C9_Witness ==
    /\ ForcedWithPage /\ CarriesValidTicket
    /\ IsRedirect
    /\ Rsp.status = 307
    /\ pending = {}
    /\ UpdateTasks \subseteq ran
    /\ short_links[Row.id].total_clicks = Row.total_clicks + 1
    /\ Len(link_visit_events) = 1

\* C10: a request that is not redirected (blocked, or not found) dispatches no
\* UPDATE, and no step at or after its response changes short_links.
C10_BlockedLeavesCounter ==
    [][(resp' # None /\ resp'[1].kind # "redirect") =>
          /\ short_links' = short_links
          /\ \A i \in 1..Len(disp') : disp'[i].kind # "update"]_vars

C10_Witness ==
    /\ Answered /\ Found /\ ~IsRedirect
    /\ RecordedBlocked("password")
    /\ pending = {}
    /\ Len(link_visit_events) = 1
    /\ short_links[Row.id].total_clicks = Row.total_clicks
    /\ short_links[Row.id].last_access_at = Row.last_access_at

\* How many of the four inputs and the signature verify was given differ from
\* those generate was given.
SigChanged ==
    Cardinality({f \in {"secret", "timestamp", "host", "code"} : hm.vin[f] # hm.in[f]})
        + (IF hm.vsig # hm.sig THEN 1 ELSE 0)

\* C7: verify accepts the signature generate made for the same secret, timestamp,
\* host and code, and rejects when exactly one of the five (the four inputs and
\* the signature) is changed.
C7_SignatureRoundTrip ==
    hm.phase = "verified" =>
        /\ SigChanged = 0 => hm.ok
        /\ SigChanged = 1 => ~hm.ok

C7_Witness ==
    /\ hm.phase = "verified"
    /\ hm.vin = [hm.in EXCEPT !.host = "x.com:a"]
    /\ hm.in.host = "x.com"
    /\ hm.vsig = hm.sig
    /\ ~hm.ok

\* The link shows an interstitial page without forcing the ticket's verification.
NonForcedWithPage ==
    /\ Answered /\ Found
    /\ Row.use_interstitial = 1
    /\ Row.force_interstitial = 0
    /\ Row.template_id # None
    /\ TemplateHtml(Row.template_id[1]) # None

\* C11: on a link with use_interstitial = 1, force_interstitial = 0 and a loadable
\* interstitial template, a request that reaches the check without t gets 200 and
\* the interstitial page with a ticket issued now, and a request that carries a
\* (non-empty) t is redirected with the link's redirect status, whatever s it
\* carries or lacks and whatever time has elapsed: nothing is verified.
C11_NonForcedTicket ==
    (NonForcedWithPage /\ PastPasswordGate) =>
        /\ R.t \in {None, Some("")} => (FreshInterstitialPage /\ ~IsRedirect)
        /\ R.t \notin {None, Some("")} =>
              /\ IsRedirect
              /\ Rsp.status = Row.redirect_http_code
              /\ Rsp.location = Some(Row.target_url)
              /\ Cardinality(UpdateTasks) = 1

C11_Witness ==
    /\ NonForcedWithPage
    /\ Row.interstitial_delay = 2
    /\ R.t = Some("0")
    /\ R.s = None
    /\ R.now = maxValiditySeconds + 1
    /\ IsRedirect
    /\ pending = {}
    /\ short_links[Row.id].total_clicks = Row.total_clicks + 1

\* The request was stopped by neither the expiry nor the visit-limit check.
PastLimitGate ==
    /\ ~(Row.expire_at \notin {None, Some(0)} /\ Row.expire_at[1] < R.now)
    /\ ~(Row.max_visits \notin {None, Some(0)} /\ Row.total_clicks >= Row.max_visits[1])

\* The password template of the answered link with errorpassword set to value:
\* None when no template is configured or the configured one cannot be loaded.
PasswordPage(value) ==
    IF ~TruthyNum(passwordTemplateId(Row)) THEN None
    ELSE getTemplateContent(passwordTemplateId(Row)[1], << <<"errorpassword", value>> >>)

\* C12: a request that reaches the password check of a link with a password and
\* supplies a different password is answered 401, with the password template (if
\* one resolves) rendered with errorpassword=true, and is recorded blocked with
\* reason 'password_wrong' and status 401.
C12_WrongPassword ==
    (Answered /\ Found /\ PastLimitGate /\ HasPassword
        /\ R.password \notin {None, Some("")} /\ ~PasswordMatches) =>
        /\ Rsp.status = 401
        /\ PasswordPage("true") # None => Rsp.body = PasswordPage("true")[1]
        /\ RecordedBlocked("password_wrong")
        /\ TheEvent.http_status = 401

\* C13: a request that reaches the password check of a link with a password and
\* a resolving password template and supplies no password is answered 200 with
\* the template rendered with errorpassword=false, and is recorded blocked with
\* reason 'password' and the status of the response.
C13_PasswordChallenge ==
    (Answered /\ Found /\ PastLimitGate /\ HasPassword
        /\ R.password \in {None, Some("")} /\ PasswordPage("false") # None) =>
        /\ Rsp.status = 200
        /\ Rsp.kind = "html"
        /\ Rsp.body = PasswordPage("false")[1]
        /\ RecordedBlocked("password")
        /\ TheEvent.http_status = Rsp.status

\* The request was answered by the error role (not found, expired, over the
\* limit) or by the password role (password missing or wrong).
InErrorRole == Answered /\ (~Found \/ ~PastLimitGate)
InPasswordRole == Answered /\ Found /\ PastLimitGate /\ HasPassword /\ ~PasswordMatches
InRole == InErrorRole \/ InPasswordRole

\* The error template ids of the active domains with the request's host.
HostErrorIds ==
    {domains[d].error_template_id :
        d \in {d \in DOMAIN domains : domains[d].host = R.host /\ domains[d].is_active = 1}}

\* The link-level and the domain-level template id configured for the role that
\* answered (None: not configured).
RoleLinkId ==
    IF ~Found THEN None
    ELSE IF ~PastLimitGate THEN Row.error_template_id
    ELSE Row.password_template_id
RoleDomainId ==
    IF ~Found THEN (IF HostErrorIds = {} THEN None ELSE CHOOSE e \in HostErrorIds : TRUE)
    ELSE IF ~PastLimitGate THEN Row.domain_error_template_id
    ELSE Row.domain_password_template_id

\* The template exists and is active; its content can also be loaded.
ActiveTemplate(tid) ==
    tid # None /\ tid[1] \in DOMAIN redirect_templates
        /\ redirect_templates[tid[1]].is_active = 1
Usable(tid) == tid # None /\ TemplateHtml(tid[1]) # None

IsPlaceholder(token) == Len(token) >= 4 /\ SubSeq(token, 1, 2) = "{{"

\* The response body is template tid's page, whatever stands at its placeholders.
RenderedFrom(tid) ==
    /\ Usable(tid)
    /\ Rsp.kind = "html"
    /\ LET html == TemplateHtml(tid[1])[1]
       IN  /\ Len(Rsp.body) = Len(html)
           /\ \A i \in 1..Len(html) : IsPlaceholder(html[i]) \/ Rsp.body[i] = html[i]

\* The response is a hardcoded body, not a template.
HardcodedBody == Rsp.kind \in {"json", "text"}

\* C14: for the error and password roles, when the link-level and the
\* domain-level template are both configured the (loadable) link-level one is
\* rendered; when only the domain-level one is configured that (loadable) one is
\* rendered; when neither is configured the hardcoded body is returned.
C14_Precedence ==
    InRole =>
        /\ (RoleLinkId # None /\ RoleDomainId # None /\ Usable(RoleLinkId))
              => RenderedFrom(RoleLinkId)
        /\ (RoleLinkId = None /\ RoleDomainId # None /\ Usable(RoleDomainId))
              => RenderedFrom(RoleDomainId)
        /\ (RoleLinkId = None /\ RoleDomainId = None) => HardcodedBody

C14_Witness ==
    /\ InPasswordRole
    /\ RoleLinkId = Some(3)
    /\ RoleDomainId = Some(1)
    /\ RenderedFrom(Some(3))
    /\ ~RenderedFrom(Some(1))
    /\ Rsp.body[2] = "false"

\* C15: only an active template is ever rendered, and when the link-level
\* template of the role is configured but missing or inactive while the
\* domain-level one is active (and loadable), the domain-level one is rendered.
C15_UnusableLinkLevel ==
    InRole =>
        /\ Rsp.kind = "html" =>
              \E id \in DOMAIN redirect_templates :
                  ActiveTemplate(Some(id)) /\ RenderedFrom(Some(id))
        /\ (RoleLinkId # None /\ ~ActiveTemplate(RoleLinkId)
                /\ ActiveTemplate(RoleDomainId) /\ Usable(RoleDomainId))
              => RenderedFrom(RoleDomainId)

\* C16: a link with use_interstitial = 1 and no link-level template, on a domain
\* whose interstitial template is active (and loadable), is shown the domain's
\* interstitial page when its request reaches the interstitial check without a
\* ticket, instead of being redirected.
C16_DomainInterstitial ==
    (Answered /\ Found /\ PastPasswordGate
        /\ Row.use_interstitial = 1 /\ Row.template_id = None
        /\ ActiveTemplate(domains[Row.domain_id].interstitial_template_id)
        /\ Usable(domains[Row.domain_id].interstitial_template_id)
        /\ R.t \in {None, Some("")}) =>
        /\ ~IsRedirect
        /\ RenderedFrom(domains[Row.domain_id].interstitial_template_id)

\* The status of the disposition that answered.
RoleStatus == IF ~Found THEN 404 ELSE IF ~PastLimitGate THEN 410 ELSE 401

\* C17: when neither the link-level nor the domain-level template of the role
\* that answers is loadable (unconfigured, missing, inactive, empty, asset
\* missing, object store unavailable), the response is the hardcoded body with
\* the disposition's own status (404, 410, 401), never an error status.
C17_FallbackBody ==
    (InRole /\ ~Usable(RoleLinkId) /\ ~Usable(RoleDomainId)) =>
        /\ HardcodedBody
        /\ Rsp.status = RoleStatus
        /\ Rsp.status < 500

\* The short links the request may resolve according to the claim: the code is
\* the requested one, the link's domain has the Host header's host and is
\* active, the link is neither soft-deleted nor disabled.
Resolvable ==
    {id \in DOMAIN short_links :
        /\ short_links[id].code = R.code
        /\ \E d \in DOMAIN domains :
              /\ d = short_links[id].domain_id
              /\ domains[d].host = R.host
              /\ domains[d].is_active = 1
        /\ short_links[id].deleted_at = None
        /\ short_links[id].is_disabled = 0}

\* C20: a request resolves a link only if that link has the requested code, is
\* on the active domain whose host is the Host header, and is neither
\* soft-deleted nor disabled; every other request is answered 404 with the error
\* page or the hardcoded body, is not redirected, and records and counts nothing.
C20_Lookup ==
    Answered =>
        /\ Found => Row.id \in Resolvable
        /\ Resolvable # {} => Found
        /\ ~Found =>
              /\ Rsp.status = 404
              /\ ~IsRedirect
              /\ Rsp.location = None
              /\ Rsp.kind = "json" \/ (Rsp.kind = "html" /\ Rsp.body[6] = "Short link not found")
              /\ disp = <<>>

C20_Witness ==
    /\ Answered /\ ~Found
    /\ R.host = "y.com" /\ R.code = "abc" /\ R.password = Some("p")
    /\ short_links[1].domain_id = 2
    /\ short_links[1].deleted_at = None
    /\ short_links[1].is_disabled = 0
    /\ short_links[1].password = Some("p")
    /\ Rsp.status = 404

\* The requests handled so far that were redirected.
Redirected == {k \in 1..Len(served) : served[k].resp.kind = "redirect"}

\* C18: the visit-limit check of a request compares max_visits with the
\* total_clicks stored when the request is looked up, whatever increments of
\* earlier requests are still pending: the request is redirected exactly when
\* the link has no limit or that stored count is below the limit.  (The witness
\* is the race: two requests redirected from total_clicks = max_visits - 1.)
C18_LimitReadsStoredCount ==
    [][nreq' = nreq + 1 =>
          (resp'[1].kind = "redirect" <=>
              (short_links[1].max_visits = None
                  \/ short_links[1].total_clicks < short_links[1].max_visits[1]))]_vars

C18_Witness ==
    /\ short_links[1].max_visits = Some(1)
    /\ Len(served) >= 2
    /\ served[1].result[1].total_clicks = 0
    /\ Cardinality(Redirected) = 2
    /\ Cardinality(Redirected) > short_links[1].max_visits[1]
    /\ pending = {}
    /\ short_links[1].total_clicks = 2
    /\ short_links[1].total_clicks > short_links[1].max_visits[1]

\* C19: the VisitEvent append and the total_clicks increment are separate
\* writes: every step runs at most one background statement, an INSERT adds one
\* event and leaves the counter, an UPDATE adds one to the counter and leaves the
\* events, and a statement that has failed is never run again.  (The witness
\* holds both half-done outcomes.)
C19_IndependentWrites ==
    [][/\ ran \subseteq ran'
       /\ Cardinality(ran' \ ran) <= 1
       /\ Len(link_visit_events') =
             Len(link_visit_events) + Cardinality((ran' \ ran) \cap EventTasks)
       /\ short_links'[1].total_clicks =
             short_links[1].total_clicks + Cardinality((ran' \ ran) \cap UpdateTasks)
       /\ \A i \in 1..Len(disp) :
             i \notin pending => (i \notin pending' /\ (i \in ran' <=> i \in ran))]_vars

C19_Witness ==
    /\ pending = {}
    /\ \E k \in Redirected :
          /\ served[k].tasks \cap EventTasks \subseteq ran
          /\ served[k].tasks \cap UpdateTasks \cap ran = {}
    /\ \E k \in Redirected :
          /\ served[k].tasks \cap UpdateTasks \subseteq ran
          /\ served[k].tasks \cap EventTasks \cap ran = {}
    /\ Cardinality(Redirected) = 2
    /\ Len(link_visit_events) = 1
    /\ short_links[1].total_clicks = served[1].result[1].total_clicks + 1

-----------------------------------------------------------------------------
(* Requests for one link answered one after another, each one's background *)
(* statements applied before the next lookup: specification SpecSeq        *)

\* The link /abc with a visit limit, never visited, with and without a password.
SeqLinks ==
    {[BaseLink EXCEPT !.max_visits = Some(m), !.password = pw] :
        m \in 1..MaxClicks + 1, pw \in {None, Some("p")}}

InitSeq ==
    /\ domains = Domains
    /\ \E link \in SeqLinks : short_links = 1 :> link
    /\ redirect_templates = Templates
    /\ template_assets = Assets
    /\ R2_BUCKET = None
    /\ link_visit_events = <<>>
    /\ req = None
    /\ result = None
    /\ resp = None
    /\ disp = <<>>
    /\ pending = {}
    /\ ran = {}
    /\ nreq = 0
    /\ served = <<>>
    /\ hm = NoSig
    /\ NoAdmin

\* The next request is looked up once nothing of the earlier ones is pending.
ResolveSeq ==
    /\ nreq < MaxRequests + 1
    /\ pending = {}
    /\ \E pw \in {None, Some("p"), Some("q")} :
          DoRequest([host |-> "x.com", code |-> "abc", now |-> nreq + 1,
                     password |-> pw, t |-> None, s |-> None])

NextSeq == ResolveSeq \/ RecordVisitEvent \/ UpdateClicks

SpecSeq == InitSeq /\ [][NextSeq]_vars

\* The visit limit of the link, and the redirects answered before request i.
SeqLimit == short_links[1].max_visits[1]
RedirectsBefore(i) == Cardinality({j \in 1..i - 1 : served[j].resp.kind = "redirect"})

\* C27: in a sequential execution a link with max_visits = M >= 1 that starts at
\* total_clicks = 0 is redirected at most M times: total_clicks never exceeds M,
\* and every request after the M-th redirected one is answered 410.
C27_SequentialQuota ==
    /\ short_links[1].total_clicks <= SeqLimit
    /\ \A i \in 1..Len(served) :
          /\ RedirectsBefore(i + 1) <= SeqLimit
          /\ RedirectsBefore(i) = SeqLimit => served[i].resp.status = 410

\* Two requests were redirected, their increments ran, and the next one got 410.
C27_Witness ==
    /\ SeqLimit = 2
    /\ short_links[1].total_clicks = 2
    /\ \E i \in 1..Len(served) :
          /\ RedirectsBefore(i) = 2
          /\ served[i].resp.status = 410
          /\ served[i].resp.kind # "redirect"

-----------------------------------------------------------------------------
(* A visitor of forced links who resubmits the tickets the interstitial    *)
(* pages carried, on either host and after a wait: specification SpecTicket*)

\* Waiting times a link may be given (the API stores interstitial_delay as sent).
TicketDelays == (0..MaxDelay) \cup {maxValiditySeconds, maxValiditySeconds + 1}

\* Two active domains; the host of the second names a port.
TicketDomains ==
    1 :> Domains[1]
    @@ 3 :> [Domains[1] EXCEPT !.host = "x.com:a", !.is_default = 0]

ForcedLink(domain_id, code, delay) ==
    WithTicketCfg([BaseLink EXCEPT !.domain_id = domain_id, !.code = code],
                  [use |-> 1, force |-> 1, delay |-> delay, tpl |-> Some(1)])

\* The hosts and codes requested: /b on each host, and /a:b, which no link has
\* (a code holds letters, digits, '-' and '_' only).
TicketTargets == {<<"x.com", "b">>, <<"x.com:a", "b">>, <<"x.com", "a:b">>}

InitTicket ==
    /\ domains = TicketDomains
    /\ \E d \in TicketDelays :
          short_links = 1 :> ForcedLink(1, "b", d) @@ 2 :> ForcedLink(3, "b", d)
    /\ redirect_templates = Templates
    /\ template_assets = Assets
    /\ R2_BUCKET = None
    /\ link_visit_events = <<>>
    /\ req = None
    /\ result = None
    /\ resp = None
    /\ disp = <<>>
    /\ pending = {}
    /\ ran = {}
    /\ nreq = 0
    /\ served = <<>>
    /\ hm = NoSig
    /\ NoAdmin

\* The answers that are interstitial pages, and the t and s each page carries.
PagesServed == {i \in 1..Len(served) : served[i].resp.kind = "html" /\ served[i].resp.status = 200}
TicketOf(i) ==
    LET PlaceOf(key) == CHOOSE n \in 1..Len(Page) : Page[n] = "{{" \o key \o "}}"
    IN  <<Some(served[i].resp.body[PlaceOf("timestamp")]),
          Some(served[i].resp.body[PlaceOf("sign")])>>

\* The waits between two requests: none, the link's delay, and longer than a
\* ticket lasts.
Waits == {0, short_links[1].interstitial_delay, maxValiditySeconds + 1}

\* The increment of every redirected request has run.
NoUpdatePending == \A n \in pending : disp[n].kind # "update"

\* What the visitor sends as t and s: nothing until a page was served, then the
\* ticket of the first page.
Resubmitted ==
    IF PagesServed = {} THEN <<None, None>>
    ELSE TicketOf(CHOOSE i \in PagesServed : \A k \in PagesServed : i <= k)

\* The next request, once the increments of the earlier requests have run.
ResolveTicket ==
    /\ nreq < MaxRequests
    /\ NoUpdatePending
    /\ \E hc \in TicketTargets, w \in Waits, ts \in {Resubmitted} :
          DoRequest([host |-> hc[1], code |-> hc[2],
                     now |-> (IF req = None THEN 0 ELSE req[1].now) + w,
                     password |-> None, t |-> ts[1], s |-> ts[2]])

NextTicket == ResolveTicket \/ UpdateClicks

SpecTicket == InitTicket /\ [][NextTicket]_vars

\* Request j resubmits, for the same host and code, the ticket of page i.
Resubmits(i, j) ==
    /\ i \in PagesServed
    /\ i < j
    /\ <<served[j].req.t, served[j].req.s>> = TicketOf(i)
    /\ served[j].req.host = served[i].req.host
    /\ served[j].req.code = served[i].req.code

Elapsed(i, j) == served[j].req.now - served[i].req.now

\* C24: for every interstitial_delay, a visitor who got the interstitial page of
\* a forced link, waited interstitial_delay seconds and resubmitted the issued t
\* and s unchanged is redirected.
C24_WaitThenPass ==
    \A i, j \in 1..Len(served) :
        Resubmits(i, j) /\ Elapsed(i, j) = served[i].result[1].interstitial_delay
            => served[j].resp.kind = "redirect"

\* The request of page i was for the link on "x.com:a" and request j for /a:b on
\* "x.com": the two sign the same string.
SameSignedString(i, j) ==
    /\ served[i].req.host = "x.com:a" /\ served[i].req.code = "b"
    /\ served[j].req.host = "x.com" /\ served[j].req.code = "a:b"

\* C25: a ticket is bound to the link it was issued for: a request that carries
\* the t and s of a page and is redirected has the host and the code of the
\* request that page answered, also when host and code contain ':'.
C25_TicketBoundToLink ==
    \A i, j \in 1..Len(served) :
        /\ i \in PagesServed
        /\ i < j
        /\ <<served[j].req.t, served[j].req.s>> = TicketOf(i)
        /\ served[j].resp.kind = "redirect"
        => /\ served[j].req.host = served[i].req.host
           /\ served[j].req.code = served[i].req.code

\* The ticket of the link on "x.com:a" was sent to /a:b on "x.com", where the
\* signature verifies, and no link answered; it was also sent to /b on "x.com".
C25_Witness ==
    \E i, j, k \in 1..Len(served) :
        /\ i \in PagesServed
        /\ i < j /\ i < k
        /\ <<served[j].req.t, served[j].req.s>> = TicketOf(i)
        /\ <<served[k].req.t, served[k].req.s>> = TicketOf(i)
        /\ SameSignedString(i, j)
        /\ verifyHmacSignature(JWT_SECRET, parseInt(served[j].req.t[1]),
                               served[j].req.host, served[j].req.code, served[j].req.s[1])
        /\ served[j].result = None
        /\ served[j].resp.status = 404
        /\ served[k].req.host = "x.com" /\ served[k].req.code = "b"
        /\ served[k].resp.kind = "html"

\* The redirected requests for link id.
RedirectsOf(id) ==
    {j \in 1..Len(served) :
        /\ served[j].resp.kind = "redirect"
        /\ served[j].result[1].id = id}

\* C26: a ticket is not consumed: every later request for the same host and code
\* that carries it is redirected exactly while interstitial_delay - 1 <= now - t
\* <= 1800, each such request increments total_clicks by one, and once now - t
\* exceeds 1800 the ticket is not accepted.
C26_TicketReusable ==
    /\ \A i, j \in 1..Len(served) :
          Resubmits(i, j) =>
              /\ served[j].resp.kind = "redirect"
                    <=> /\ Elapsed(i, j) >= served[j].result[1].interstitial_delay - 1
                        /\ Elapsed(i, j) <= 1800
              /\ served[j].resp.kind = "redirect"
                    => Cardinality({n \in served[j].tasks :
                                      /\ disp[n].kind = "update"
                                      /\ disp[n].id = served[j].result[1].id}) = 1
    /\ NoUpdatePending =>
          \A id \in DOMAIN short_links :
              short_links[id].total_clicks = Cardinality(RedirectsOf(id))

\* One ticket was accepted by two later requests, and both were counted.
C26_Witness ==
    /\ NoUpdatePending
    /\ \E i, j, k \in 1..Len(served) :
          /\ j < k
          /\ Resubmits(i, j) /\ Resubmits(i, k)
          /\ served[j].resp.kind = "redirect"
          /\ served[k].resp.kind = "redirect"
          /\ short_links[served[i].result[1].id].total_clicks = 2

-----------------------------------------------------------------------------
(* The short-link management API (worker/api/shortlink.ts), one call after *)
(* another: specification SpecLinks                                        *)

MaxCalls == 2

\* String.prototype.trim, for blanks
RECURSIVE trim(_)
trim(s) ==
    IF s = "" THEN s
    ELSE IF Head(s) = " " THEN trim(Tail(s))
    ELSE IF SubSeq(s, Len(s), Len(s)) = " " THEN trim(SubSeq(s, 1, Len(s) - 1))
    ELSE s

\* /^[A-Za-z0-9_-]+$/.test(code)
LowerCase ==
    {"a", "b", "c", "d", "e", "f", "g", "h", "i", "j", "k", "l", "m",
     "n", "o", "p", "q", "r", "s", "t", "u", "v", "w", "x", "y", "z"}
UpperCase ==
    {"A", "B", "C", "D", "E", "F", "G", "H", "I", "J", "K", "L", "M",
     "N", "O", "P", "Q", "R", "S", "T", "U", "V", "W", "X", "Y", "Z"}
CodePattern(code) ==
    /\ code # ""
    /\ \A i \in 1..Len(code) :
          SubSeq(code, i, i) \in Digits \cup LowerCase \cup UpperCase \cup {"_", "-"}

\* The non-deleted links other than link id that have this code on this domain.
Duplicates(domain_id, code, id) ==
    {k \in DOMAIN short_links :
        /\ k # id
        /\ short_links[k].domain_id = domain_id
        /\ short_links[k].code = code
        /\ short_links[k].deleted_at = None}

\* The answer of a management call: its status and the table it leaves.
Answer(status, links) == [status |-> status, short_links |-> links]

\* POST /create: the answers the handler may give to this body.
Create(body) ==
    LET code == IF body.code = None THEN "" ELSE trim(body.code[1])
        did == body.domain_id
        \* INSERT INTO short_links: the row of the new link, under the next id
        Inserted(domain_id, c) ==
            short_links @@
            (Cardinality(DOMAIN short_links) + 1 :>
                [BaseLink EXCEPT !.domain_id = domain_id, !.code = c])
    IN  IF ~TruthyStr(body.target_url) \/ trim(body.target_url[1]) = ""
        THEN {Answer(400, short_links)}
        ELSE IF ~TruthyNum(did) THEN {Answer(400, short_links)}
        ELSE IF ~(did[1] \in DOMAIN domains /\ domains[did[1]].is_active = 1)
        THEN {Answer(400, short_links)}
        ELSE IF code # ""
        THEN IF ~CodePattern(code) THEN {Answer(400, short_links)}
             ELSE IF Duplicates(did[1], code, 0) # {} THEN {Answer(409, short_links)}
             ELSE {Answer(201, Inserted(did[1], code))}
        ELSE LET GeneratedCodes == {"aaaaaa", "aaaaab"}   \* what generateCode(6) may return
                 taken == {g \in GeneratedCodes :
                               \E k \in DOMAIN short_links :
                                   /\ short_links[k].domain_id = did[1]
                                   /\ short_links[k].code = g}
             IN  {Answer(201, Inserted(did[1], g)) : g \in GeneratedCodes \ taken}
                 \cup (IF taken # {} THEN {Answer(500, short_links)} ELSE {})

\* PUT /update/:id: the answer of the handler to this id and body.
Update(id, body) ==
    IF ~(id \in DOMAIN short_links /\ short_links[id].deleted_at = None)
    THEN Answer(404, short_links)
    ELSE
    LET existing == short_links[id]
        targetDomainId == Nullish(body.domain_id, Some(existing.domain_id))[1]
        newCode == trim(body.code[1])
        \* SELECT id FROM domains WHERE id = ? AND is_active = 0
        UpdateDomainCheck(domain_id) ==
            domain_id \in DOMAIN domains /\ domains[domain_id].is_active = 0
    IN  IF /\ body.domain_id # None
           /\ body.domain_id[1] # existing.domain_id
           /\ ~UpdateDomainCheck(body.domain_id[1])
        THEN Answer(400, short_links)
        ELSE IF body.code # None /\ ~CodePattern(newCode) THEN Answer(400, short_links)
        ELSE IF /\ body.code # None
                /\ (newCode # existing.code \/ targetDomainId # existing.domain_id)
                /\ Duplicates(targetDomainId, newCode, id) # {}
        THEN Answer(409, short_links)
        ELSE Answer(200,
                 [short_links EXCEPT
                     ![id].domain_id = IF body.domain_id # None THEN body.domain_id[1] ELSE @,
                     ![id].code = IF body.code # None THEN newCode ELSE @,
                     ![id].is_disabled = IF body.is_disabled # None THEN body.is_disabled[1] ELSE @])

\* UPDATE short_links SET deleted_at = ? WHERE id IN (ids) AND deleted_at IS NULL
SoftDeleted(ids) ==
    [k \in DOMAIN short_links |->
        IF k \in ids /\ short_links[k].deleted_at = None
        THEN [short_links[k] EXCEPT !.deleted_at = Some(clock)]
        ELSE short_links[k]]

\* DELETE /delete/:id
Delete(id) ==
    IF id \in DOMAIN short_links /\ short_links[id].deleted_at = None
    THEN Answer(200, SoftDeleted({id}))
    ELSE Answer(404, short_links)

\* POST /batch-delete
BatchDelete(ids) ==
    IF ids = {} THEN Answer(400, short_links) ELSE Answer(200, SoftDeleted(ids))

\* POST /toggle-status/:id
ToggleStatus(id) ==
    IF id \in DOMAIN short_links /\ short_links[id].deleted_at = None
    THEN Answer(200, [short_links EXCEPT ![id].is_disabled = IF @ = 0 THEN 1 ELSE 0])
    ELSE Answer(404, short_links)

\* A management call is answered: the table it leaves, and the call in the log.
LinkCall(op, id, body, answer) ==
    /\ short_links' = answer.short_links
    /\ replies' = Append(replies, [op |-> op, id |-> id, body |-> body,
                                   status |-> answer.status,
                                   before |-> short_links, after |-> answer.short_links])
    /\ UNCHANGED <<tables, link_visit_events, req, result, resp, disp, pending, ran,
                   nreq, served, hm, users, calls, clock>>

\* The bodies sent to /create: without a URL, and with one for every domain id
\* and code (none, free or taken, padded with blanks, with a ':').
CreateBodies ==
    {[target_url |-> u, domain_id |-> None, code |-> None] : u \in {None, Some(" ")}}
    \cup {[target_url |-> Some("https://dest.example"), domain_id |-> d, code |-> c] :
            d \in {None, Some(1), Some(2), Some(9)},
            c \in {None, Some("abc"), Some(" b "), Some("a:b")}}

\* The bodies sent to /update/:id: a domain, a code, both, or the disabled flag.
UpdateBodies ==
    {[domain_id |-> d, code |-> c, is_disabled |-> None] :
        d \in {None, Some(1), Some(2), Some(9)}, c \in {None, Some("abc"), Some("a:b")}}
    \cup {[domain_id |-> None, code |-> None, is_disabled |-> Some(1)]}

LinkCreate ==
    /\ Len(replies) < MaxCalls
    /\ \E body \in CreateBodies : \E answer \in Create(body) :
          LinkCall("create", 0, body, answer)
LinkUpdate ==
    /\ Len(replies) < MaxCalls
    /\ \E id \in {1, 2, 9}, body \in UpdateBodies :
          LinkCall("update", id, body, Update(id, body))
LinkDelete ==
    /\ Len(replies) < MaxCalls
    /\ \E id \in {1, 2, 9} : LinkCall("delete", id, None, Delete(id))
LinkBatchDelete ==
    /\ Len(replies) < MaxCalls
    /\ \E ids \in {{}, {1, 2}, {2, 9}} : LinkCall("batch-delete", 0, ids, BatchDelete(ids))
LinkToggleStatus ==
    /\ Len(replies) < MaxCalls
    /\ \E id \in {1, 2, 9} : LinkCall("toggle-status", id, None, ToggleStatus(id))

\* No link yet, or /abc on x.com and /abc on y.com, created while y.com was active.
InitLinks ==
    /\ domains = Domains
    /\ short_links \in {<<>>, 1 :> BaseLink @@ 2 :> [BaseLink EXCEPT !.domain_id = 2]}
    /\ redirect_templates = Templates
    /\ template_assets = Assets
    /\ R2_BUCKET = None
    /\ link_visit_events = <<>>
    /\ req = None
    /\ result = None
    /\ resp = None
    /\ disp = <<>>
    /\ pending = {}
    /\ ran = {}
    /\ nreq = 0
    /\ served = <<>>
    /\ hm = NoSig
    /\ NoAdmin

NextLinks == LinkCreate \/ LinkUpdate \/ LinkDelete \/ LinkBatchDelete \/ LinkToggleStatus

SpecLinks == InitLinks /\ [][NextLinks]_vars

\* C21: after any sequence of short-link management calls no two non-deleted
\* short links of the same domain have the same code.
C21_CodeUniquePerDomain ==
    \A a, b \in DOMAIN short_links :
        /\ a # b
        /\ short_links[a].deleted_at = None
        /\ short_links[b].deleted_at = None
        /\ short_links[a].domain_id = short_links[b].domain_id
        => short_links[a].code # short_links[b].code

\* The calls that asked to move an existing link to another domain.
DomainMoves ==
    {n \in 1..Len(replies) :
        /\ replies[n].op = "update"
        /\ replies[n].id \in DOMAIN replies[n].before
        /\ replies[n].before[replies[n].id].deleted_at = None
        /\ replies[n].body.domain_id # None
        /\ replies[n].body.domain_id[1] # replies[n].before[replies[n].id].domain_id}

\* C28: an update to a different domain_id validates the new domain as creation
\* does: it is accepted only if the domain exists and is active, and is answered
\* 400 with the link unchanged when the domain is missing or inactive.
C28_UpdateValidatesDomain ==
    \A n \in DomainMoves :
        LET d == replies[n].body.domain_id[1]
            active == d \in DOMAIN domains /\ domains[d].is_active = 1
        IN  /\ replies[n].status = 200 => active
            /\ ~active => replies[n].status = 400 /\ replies[n].after = replies[n].before

-----------------------------------------------------------------------------
(* System initialisation (worker/auth.ts) and the domain management API    *)
(* (worker/api/domain.ts), the statements of concurrent calls interleaved: *)
(* specification SpecAdmin                                                 *)

\* regex.test(s) for a character class
HasChar(s, chars) == \E i \in 1..Len(s) : SubSeq(s, i, i) \in chars

\* POST /init: the JWT_SECRET passes the complexity check (the negation of the
\* condition that answers 400).
SecretAccepted(jwtSecret) ==
    /\ jwtSecret # ""
    /\ ~(Len(jwtSecret) <= 10)
    /\ HasChar(jwtSecret, LowerCase)
    /\ HasChar(jwtSecret, UpperCase)
    /\ HasChar(jwtSecret, Digits)
    /\ \E i \in 1..Len(jwtSecret) :
          SubSeq(jwtSecret, i, i) \notin LowerCase \cup UpperCase \cup Digits

\* The id of the next row of a table.
NextId(table) ==
    IF DOMAIN table = {} THEN 1
    ELSE 1 + CHOOSE m \in DOMAIN table : \A k \in DOMAIN table : k <= m

\* bcryptjs hashSync, as a term
hashSync(password) == "bcrypt(" \o password \o ")"

\* A call moves on to its next statement, or returns.
To(c, pc) == [c EXCEPT !.pc = pc]
Done(c, status, message) == [c EXCEPT !.pc = "done", !.status = status, !.message = message]

\* The outcome of a statement of a call: the call after it and the tables.
Outcome(c, doms, usrs) == [call |-> c, domains |-> doms, users |-> usrs]

\* POST /init, one statement at a time.
InitHandler(c) ==
    CASE c.pc = "start" ->
            IF c.body.json = None
            THEN Outcome(Done(c, 400, "init data error"), domains, users)
            ELSE IF ~TruthyStr(c.body.json[1].username) \/ ~TruthyStr(c.body.json[1].password)
            THEN Outcome(Done(c, 400, "username or password required"), domains, users)
            ELSE IF ~SecretAccepted(c.body.secret)
            THEN Outcome(Done(c, 400, "JWT_SECRET is not secure enough"), domains, users)
            ELSE IF 1 \in DOMAIN users
            THEN Outcome(Done(c, 400, "already initialized"), domains, users)
            ELSE Outcome(To(c, "insert_user"), domains, users)
      [] c.pc = "insert_user" ->
            LET call == [c EXCEPT !.wrote = Append(@, "users")]
                row == [username |-> trim(c.body.json[1].username[1]),
                        password_hash |-> hashSync(c.body.json[1].password[1]),
                        role |-> "admin", status |-> 0, deleted_at |-> None,
                        updated_at |-> clock]
            IN  Outcome(IF c.body.host = None THEN Done(call, 400, "host not found")
                        ELSE To(call, "insert_domain"),
                        domains, users @@ (NextId(users) :> row))
      [] c.pc = "insert_domain" ->
            LET row == [host |-> c.body.host[1], is_active |-> 1, is_default |-> 1,
                        password_template_id |-> Some(2), error_template_id |-> Some(1),
                        interstitial_template_id |-> Some(3)]
            IN  Outcome(Done([c EXCEPT !.wrote = Append(@, "domains")], 201, "init success"),
                        domains @@ (NextId(domains) :> row), users)

\* UPDATE domains SET is_default = 0 WHERE is_default = 1 AND id != ?
ClearDefault(id) ==
    [d \in DOMAIN domains |->
        IF d # id /\ domains[d].is_default = 1
        THEN [domains[d] EXCEPT !.is_default = 0] ELSE domains[d]]

\* POST /create of the domain API, one statement at a time.
DomainCreateHandler(c) ==
    CASE c.pc = "start" ->
            IF ~TruthyStr(c.body.host) \/ trim(c.body.host[1]) = ""
            THEN Outcome(Done(c, 400, "host required"), domains, users)
            ELSE IF \E d \in DOMAIN domains : domains[d].host = trim(c.body.host[1])
            THEN Outcome(Done(c, 409, "host exists"), domains, users)
            ELSE Outcome(To(c, "count"), domains, users)
      [] c.pc = "count" ->
            LET isDefault == IF DOMAIN domains = {} THEN 1
                             ELSE IF TruthyNum(c.body.is_default) THEN c.body.is_default[1]
                             ELSE 0
            IN  Outcome([To(c, IF isDefault = 1 THEN "clear" ELSE "insert")
                            EXCEPT !.local = isDefault], domains, users)
      [] c.pc = "clear" -> Outcome(To(c, "insert"), ClearDefault(0), users)
      [] c.pc = "insert" ->
            LET row == [host |-> trim(c.body.host[1]),
                        is_active |-> Nullish(c.body.is_active, Some(0))[1],
                        is_default |-> c.local,
                        password_template_id |-> None, error_template_id |-> None,
                        interstitial_template_id |-> None]
            IN  Outcome(Done([c EXCEPT !.wrote = Append(@, "domains")], 201, "created"),
                        domains @@ (NextId(domains) :> row), users)

\* PUT /update/:id of the domain API, one statement at a time.
DomainUpdateHandler(c) ==
    LET \* the statement after the check of the host, and after that of the defaults
        AfterHostCheck(k) == IF k.body.is_default = Some(1) THEN "clear" ELSE "write"
        AfterDefaultCheck(k) ==
            IF TruthyStr(k.body.host) /\ trim(k.body.host[1]) # k.local.host
            THEN "duplicate" ELSE AfterHostCheck(k)
    IN
    CASE c.pc = "start" ->
            IF c.id \notin DOMAIN domains
            THEN Outcome(Done(c, 404, "domain not found"), domains, users)
            ELSE LET call == [c EXCEPT !.local = domains[c.id]]
                 IN  Outcome(To(call, IF /\ c.body.is_default = Some(0)
                                         /\ domains[c.id].is_default = 1
                                      THEN "others" ELSE AfterDefaultCheck(call)),
                             domains, users)
      [] c.pc = "others" ->
            IF {d \in DOMAIN domains : domains[d].is_default = 1 /\ d # c.id} = {}
            THEN Outcome(Done(c, 400, "cannot unset the only default"), domains, users)
            ELSE Outcome(To(c, AfterDefaultCheck(c)), domains, users)
      [] c.pc = "duplicate" ->
            IF \E d \in DOMAIN domains : domains[d].host = trim(c.body.host[1]) /\ d # c.id
            THEN Outcome(Done(c, 409, "host exists"), domains, users)
            ELSE Outcome(To(c, AfterHostCheck(c)), domains, users)
      [] c.pc = "clear" -> Outcome(To(c, "write"), ClearDefault(c.id), users)
      [] c.pc = "write" ->
            Outcome(Done(c, 200, "updated"),
                    [d \in DOMAIN domains |->
                        IF d # c.id THEN domains[d]
                        ELSE [domains[d] EXCEPT
                                 !.host = IF c.body.host # None THEN trim(c.body.host[1]) ELSE @,
                                 !.is_active = IF c.body.is_active # None
                                               THEN c.body.is_active[1] ELSE @,
                                 !.is_default = IF c.body.is_default # None
                                                THEN c.body.is_default[1] ELSE @]],
                    users)

\* DELETE /delete/:id of the domain API, one statement at a time.
DomainDeleteHandler(c) ==
    CASE c.pc = "start" ->
            IF c.id \notin DOMAIN domains
            THEN Outcome(Done(c, 404, "domain not found"), domains, users)
            ELSE IF domains[c.id].is_default = 1
            THEN Outcome(Done(c, 400, "cannot delete the default domain"), domains, users)
            ELSE Outcome(To(c, "links"), domains, users)
      [] c.pc = "links" ->
            IF \E k \in DOMAIN short_links :
                  short_links[k].domain_id = c.id /\ short_links[k].deleted_at = None
            THEN Outcome(Done(c, 400, "domain has links"), domains, users)
            ELSE Outcome(To(c, "delete"), domains, users)
      [] c.pc = "delete" ->
            Outcome(Done(c, 200, "deleted"),
                    [d \in DOMAIN domains \ {c.id} |-> domains[d]], users)

\* A call in flight: its input, the statement it is at, what it read, the tables
\* it inserted into, and its answer once it returns.
Call(op, id, body) ==
    [op |-> op, id |-> id, body |-> body, pc |-> "start", local |-> None,
     wrote |-> <<>>, status |-> 0, message |-> ""]

\* The JWT_SECRET values of a deployment: of 11 and of 10 characters with every
\* kind of character, of 9, and of 11 without one kind; and none.
Secrets ==
    {"Secret-K12!", "Secret-K1!", "Secret-K1", "secret-k12!", "SECRET-K12!",
     "Secret-Kxx!", "SecretK1234", ""}

\* The calls of POST /init: a body that is not JSON, one without password, and a
\* complete one with and without a Host header under every secret.
InitCalls ==
    {Call("init", 0, [json |-> j, host |-> Some("x.com"), secret |-> "Secret-K12!"]) :
        j \in {None, Some([username |-> Some("admin"), password |-> None])}}
    \cup {Call("init", 0, [json |-> Some([username |-> Some("admin"), password |-> Some("pw")]),
                           host |-> h, secret |-> k]) :
            h \in {None, Some("x.com")}, k \in Secrets}

\* The calls of the domain API.
DomainCalls ==
    {Call("create", 0, [host |-> h, is_default |-> None, is_active |-> Some(1)]) :
        h \in {None, Some("x.com")}}
    \cup {Call("create", 0, [host |-> Some(" z.com "), is_default |-> d, is_active |-> None]) :
            d \in {None, Some(0), Some(1)}}
    \cup {Call("update", id, [host |-> None, is_default |-> d, is_active |-> None]) :
            id \in {1, 2}, d \in {Some(0), Some(1)}}
    \cup {Call("update", id, [host |-> Some("x.com"), is_default |-> None, is_active |-> Some(0)]) :
            id \in {2, 9}}
    \cup {Call("delete", id, None) : id \in {1, 2, 9}}

\* A call arrives; authVerify lets a call of the domain API through when a user
\* someone can be logged in as exists.
Begin ==
    /\ Len(replies) + Len(calls) < MaxCalls
    /\ \E c \in InitCalls \cup DomainCalls :
          /\ \/ c.op = "init"
             \/ \E u \in DOMAIN users : users[u].status = 0 /\ users[u].deleted_at = None
          /\ calls' = Append(calls, c)
    /\ UNCHANGED <<tables, short_links, link_visit_events, req, result, resp, disp,
                   pending, ran, nreq, served, hm, users, replies, clock>>

\* The next statement of call i runs; when the call returns it leaves calls and
\* joins replies.
Advance(i, out) ==
    /\ domains' = out.domains
    /\ users' = out.users
    /\ IF out.call.pc = "done"
       THEN /\ calls' = SubSeq(calls, 1, i - 1) \o SubSeq(calls, i + 1, Len(calls))
            /\ replies' = Append(replies, out.call)
       ELSE /\ calls' = [calls EXCEPT ![i] = out.call]
            /\ UNCHANGED replies
    /\ UNCHANGED <<redirect_templates, template_assets, R2_BUCKET, short_links,
                   link_visit_events, req, result, resp, disp, pending, ran, nreq,
                   served, hm, clock>>

AuthInit ==
    \E i \in DOMAIN calls : calls[i].op = "init" /\ Advance(i, InitHandler(calls[i]))
DomainCreate ==
    \E i \in DOMAIN calls : calls[i].op = "create" /\ Advance(i, DomainCreateHandler(calls[i]))
DomainUpdate ==
    \E i \in DOMAIN calls : calls[i].op = "update" /\ Advance(i, DomainUpdateHandler(calls[i]))
DomainDelete ==
    \E i \in DOMAIN calls : calls[i].op = "delete" /\ Advance(i, DomainDeleteHandler(calls[i]))

\* Not initialised; or initialised on x.com, with y.com added and /abc on x.com.
InitAdmin ==
    /\ \/ /\ users = <<>>
          /\ domains = <<>>
          /\ short_links = <<>>
       \/ /\ users = 1 :> [username |-> "admin", password_hash |-> hashSync("pw"),
                           role |-> "admin", status |-> 0, deleted_at |-> None,
                           updated_at |-> 0]
          /\ domains = 1 :> [host |-> "x.com", is_active |-> 1, is_default |-> 1,
                             password_template_id |-> Some(2), error_template_id |-> Some(1),
                             interstitial_template_id |-> Some(3)]
                       @@ 2 :> [host |-> "y.com", is_active |-> 1, is_default |-> 0,
                                password_template_id |-> None, error_template_id |-> None,
                                interstitial_template_id |-> None]
          /\ short_links = 1 :> BaseLink
    /\ redirect_templates = Templates
    /\ template_assets = Assets
    /\ R2_BUCKET = None
    /\ link_visit_events = <<>>
    /\ req = None
    /\ result = None
    /\ resp = None
    /\ disp = <<>>
    /\ pending = {}
    /\ ran = {}
    /\ nreq = 0
    /\ served = <<>>
    /\ hm = NoSig
    /\ calls = <<>>
    /\ replies = <<>>
    /\ clock = 1

NextAdmin == Begin \/ AuthInit \/ DomainCreate \/ DomainUpdate \/ DomainDelete

SpecAdmin == InitAdmin /\ [][NextAdmin]_vars

\* The domains marked default.
Defaults == {d \in DOMAIN domains : domains[d].is_default = 1}

\* C22: once a domain exists, exactly one domain has is_default = 1 after any
\* sequence and any interleaving of init, domain create, update and delete
\* calls (whenever no call is in flight).
C22_OneDefaultDomain ==
    calls = <<>> /\ DOMAIN domains # {} => Cardinality(Defaults) = 1

\* The answered calls of POST /init, and those whose body had both fields.
InitReplies == {n \in 1..Len(replies) : replies[n].op = "init"}
CompleteInits ==
    {n \in InitReplies :
        /\ replies[n].body.json # None
        /\ TruthyStr(replies[n].body.json[1].username)
        /\ TruthyStr(replies[n].body.json[1].password)}

\* The call was answered 400 for its secret, having inserted nothing.
RejectedForSecret(n) ==
    /\ replies[n].status = 400
    /\ replies[n].message = "JWT_SECRET is not secure enough"
    /\ replies[n].wrote = <<>>

\* A secret with a lowercase letter, an uppercase letter, a digit and another
\* character.
EveryKind(secret) ==
    /\ \E i \in 1..Len(secret) : SubSeq(secret, i, i) \in LowerCase
    /\ \E i \in 1..Len(secret) : SubSeq(secret, i, i) \in UpperCase
    /\ \E i \in 1..Len(secret) : SubSeq(secret, i, i) \in Digits
    /\ \E i \in 1..Len(secret) :
          SubSeq(secret, i, i) \notin LowerCase \cup UpperCase \cup Digits

\* C23: initialisation accepts every secret of at least 10 characters with
\* every kind of character, and rejects every other secret with 400, creating
\* no user and no domain.
C23_SecretCheck ==
    \A n \in CompleteInits :
        IF Len(replies[n].body.secret) >= 10 /\ EveryKind(replies[n].body.secret)
        THEN replies[n].message # "JWT_SECRET is not secure enough"
        ELSE RejectedForSecret(n)

\* C30: POST /init is all-or-nothing: a call answered with an error status has
\* inserted nothing, and a call answered 201 has inserted one admin user and one
\* active default domain.
C30_InitAllOrNothing ==
    \A n \in InitReplies :
        /\ replies[n].status >= 400 => replies[n].wrote = <<>>
        /\ replies[n].status = 201 => replies[n].wrote = <<"users", "domains">>

-----------------------------------------------------------------------------
(* Logging in, changing a password and calling a protected route           *)
(* (worker/auth.ts, worker/api/user.ts), second by second: specification   *)
(* SpecAuth                                                                *)

\* authVerify on a token that login signed: 401, or 200 when the call goes on
\* to its handler.
authVerify(token) ==
    IF token.exp <= clock THEN 401
    ELSE IF token.sub \notin DOMAIN users THEN 401
    ELSE IF users[token.sub].status # 0 THEN 401
    ELSE IF users[token.sub].deleted_at # None THEN 401
    ELSE IF users[token.sub].updated_at > token.iat THEN 401
    ELSE 200

\* A call of the API is answered: the users it leaves, and the call in the log.
AuthCall(op, token, status, changed, usrs) ==
    /\ Len(replies) < MaxCalls + 1
    /\ users' = usrs
    /\ replies' = Append(replies, [op |-> op, token |-> token, status |-> status,
                                   changed |-> changed, at |-> clock])
    /\ UNCHANGED <<tables, short_links, link_visit_events, req, result, resp, disp,
                   pending, ran, nreq, served, hm, calls, clock>>

\* POST /login
AuthLogin ==
    \E username \in {"admin", "nobody"}, password \in {"secret1", "secret2"} :
        LET ids == {u \in DOMAIN users : users[u].username = username}
            row == users[CHOOSE u \in ids : TRUE]
        IN  IF ids = {} THEN AuthCall("login", None, 401, None, users)
            ELSE IF row.password_hash # hashSync(password)
            THEN AuthCall("login", None, 401, None, users)
            ELSE IF row.status # 0 THEN AuthCall("login", None, 403, None, users)
            ELSE IF row.deleted_at # None THEN AuthCall("login", None, 401, None, users)
            ELSE AuthCall("login",
                          Some([sub |-> CHOOSE u \in ids : TRUE, username |-> row.username,
                                role |-> row.role, iat |-> clock,
                                exp |-> clock + 7 * 24 * 60 * 60]),
                          200, None, users)

\* The tokens that login has issued.
Tokens == {replies[n].token[1] : n \in {k \in 1..Len(replies) : replies[k].token # None}}

\* PUT /me/password, behind authVerify
MePassword ==
    \E token \in Tokens, oldPassword \in {"secret1", "secret2"},
       newPassword \in {"secret2", "short"} :
        IF authVerify(token) # 200
        THEN AuthCall("me/password", Some(token), 401, None, users)
        ELSE IF Len(newPassword) < 6
        THEN AuthCall("me/password", Some(token), 400, None, users)
        ELSE IF users[token.sub].deleted_at # None
        THEN AuthCall("me/password", Some(token), 404, None, users)
        ELSE IF users[token.sub].status # 0
        THEN AuthCall("me/password", Some(token), 403, None, users)
        ELSE IF users[token.sub].password_hash # hashSync(oldPassword)
        THEN AuthCall("me/password", Some(token), 200, None, users)
        ELSE AuthCall("me/password", Some(token), 200, Some(token.sub),
                      [users EXCEPT ![token.sub].password_hash = hashSync(newPassword),
                                    ![token.sub].updated_at = clock])

\* PUT /update/:id of the user API, behind authVerify
UserUpdate ==
    \E token \in Tokens, id \in {1, 9}, password \in {None, Some("secret2")} :
        IF authVerify(token) # 200
        THEN AuthCall("update", Some(token), 401, None, users)
        ELSE IF ~(id \in DOMAIN users /\ users[id].deleted_at = None)
        THEN AuthCall("update", Some(token), 404, None, users)
        ELSE AuthCall("update", Some(token), 200,
                      IF TruthyStr(password) THEN Some(id) ELSE None,
                      [users EXCEPT
                          ![id].password_hash = IF TruthyStr(password)
                                                THEN hashSync(password[1]) ELSE @,
                          ![id].updated_at = clock])

\* Any other route under /api/, behind authVerify
Protected ==
    \E token \in Tokens :
        AuthCall("protected", Some(token), authVerify(token), None, users)

\* A second passes.
Tick ==
    /\ clock <= MaxCalls
    /\ clock' = clock + 1
    /\ UNCHANGED <<tables, short_links, link_visit_events, req, result, resp, disp,
                   pending, ran, nreq, served, hm, users, calls, replies>>

\* The system as /init left it a second ago.
InitAuth ==
    /\ domains = Domains
    /\ short_links = <<>>
    /\ redirect_templates = Templates
    /\ template_assets = Assets
    /\ R2_BUCKET = None
    /\ link_visit_events = <<>>
    /\ req = None
    /\ result = None
    /\ resp = None
    /\ disp = <<>>
    /\ pending = {}
    /\ ran = {}
    /\ nreq = 0
    /\ served = <<>>
    /\ hm = NoSig
    /\ users = 1 :> [username |-> "admin", password_hash |-> hashSync("secret1"),
                     role |-> "admin", status |-> 0, deleted_at |-> None,
                     updated_at |-> 0]
    /\ calls = <<>>
    /\ replies = <<>>
    /\ clock = 1

NextAuth == AuthLogin \/ MePassword \/ UserUpdate \/ Protected \/ Tick

SpecAuth == InitAuth /\ [][NextAuth]_vars

\* Call n came after a password change of the user of its token, which came
\* after the login that issued the token.
AfterPasswordChange(n) ==
    \E l, p \in 1..Len(replies) :
        /\ l < p /\ p < n
        /\ replies[l].op = "login"
        /\ replies[l].token = replies[n].token
        /\ replies[p].changed = Some(replies[n].token[1].sub)

\* C29: after a user's password is changed (by /me/password or by an update of
\* the user), every token issued to that user before the change is rejected with
\* 401 on every protected route, also a token issued in the second of the change.
C29_OldTokensRejected ==
    \A n \in 1..Len(replies) :
        replies[n].op # "login" /\ AfterPasswordChange(n) => replies[n].status = 401
====
